---------------------------- MODULE Spec2Model ----------------------------
(***************************************************************************)
(* A model of Realm/ObjectStore/impl/realm_coordinator.cpp: the            *)
(* process-wide coordinator registry, the per-coordinator cached-handle    *)
(* table, and the async-query registry and runner.                         *)
(*                                                                         *)
(* Every method that runs under a std::lock_guard for its whole body is    *)
(* one atomic action.  run_async_queries releases m_query_mutex while the  *)
(* queries run, and clear_cache releases s_coordinator_mutex before it     *)
(* closes the gathered handles; these are split at the points where the    *)
(* lock is released.                                                       *)
(***************************************************************************)
EXTENDS Integers, Sequences, FiniteSets, TLC

\* Bounds of the model.
NumThreads == 2
NumPaths == 1
MaxCoordinators == 2
MaxRealms == 2
MaxQueries == 3
MaxVersion == 3

Threads == 1..NumThreads
Paths == 1..NumPaths
Coordinators == 1..MaxCoordinators
Realms == 1..MaxRealms
Queries == 1..MaxQueries

\* ObjectStore::NotVersioned (numeric_limits<uint64_t>::max() in the program);
\* only its being different from every real schema version matters.
NotVersioned == -1

\* Realm::Config, the fields get_realm reads.
Configs ==
    [read_only : BOOLEAN, in_memory : BOOLEAN, encryption_key : {"none", "k1"},
     schema_version : {NotVersioned, 1, 2}, cache : BOOLEAN]

\* A default-constructed Realm::Config, the value of m_config before the
\* first get_realm.
DefaultConfig ==
    [read_only |-> FALSE, in_memory |-> FALSE, encryption_key |-> "none",
     schema_version |-> NotVersioned, cache |-> TRUE]

\* The configs the handle operations are called with: those that differ from
\* the default in at most one of the fields get_realm compares.
OpenedConfigs ==
    {config \in Configs :
        Cardinality({f \in {"read_only", "in_memory", "encryption_key", "schema_version"} :
                        config[f] # DefaultConfig[f]}) <= 1}

VARIABLES
    \* static std::unordered_map<std::string, std::weak_ptr<RealmCoordinator>>:
    \* path -> coordinator id, 0 when the map has no entry for the path.
    s_coordinators_per_path,
    \* The path each coordinator was constructed for (0: not constructed).
    created_for,
    \* The coordinators each thread holds a std::shared_ptr to.
    coordinator_refs,
    \* Coordinators whose last strong reference is gone and whose destructor
    \* has not yet taken s_coordinator_mutex.
    destructing,
    \* Per coordinator: m_config, m_notifier (non-null?), m_cached_realms.
    m_config,
    m_notifier,
    m_cached_realms,
    \* The Realm handles: state "none" (not constructed), "alive" (strongly
    \* referenced), "expired" (last reference dropped, destructor pending),
    \* "gone" (destroyed); the coordinator they hold; their thread.
    realms,
    \* clear_cache's local realms_to_close, between gathering and closing.
    realms_to_close,
    \* The newest committed version of the file.
    latest,
    \* The AsyncQuery objects: state "none" (not registered), "alive", "dead"
    \* (is_alive() is false), "released" (removed by clean_up_dead_queries);
    \* version(); the helper snapshot they are attached to; whether a
    \* handover is prepared; the last error passed to deliver.
    queries,
    \* m_queries and m_new_queries: sequences of query ids.
    m_queries,
    m_new_queries,
    \* m_query_sg and m_advancer_sg: open (non-null), holding a read
    \* transaction, and at which version.
    m_query_sg,
    m_advancer_sg,
    \* m_async_error: "none" or the failure that was captured.
    m_async_error,
    \* The run_async_queries in progress: pc "idle" or "running" (the query
    \* lock released, the queries running), its queries_to_run, the pending
    \* queries it found, the version it advanced to.
    run,
    \* The version of the consumer handle's own snapshot.
    realm_sg,
    \* The last call made and what it returned.
    ret,
    \* The three mutexes: s_coordinator_mutex ("registry"), m_realm_mutex
    \* ("handle") and m_query_mutex ("query") of one coordinator; the thread
    \* that owns each, 0 when it is free.
    mutex,
    \* Per thread, the method it is executing ("idle" when none) and the
    \* index of the next step of that method.
    pc,
    \* A TransactLogValidator reading a transaction's log: m_current_table,
    \* m_new_tables, and how it stopped ("none" while it accepts).
    validator,
    \* The TransactLogValidator base of the TransactLogObserver reading the
    \* same log, and how it stopped.
    observer,
    \* TransactLogObserver::m_changes: a ChangeInfo per table index.
    m_changes,
    \* TransactLogObserver::m_observered_linkviews and m_active_linklist (an
    \* index into the former, 0 for nullptr).
    m_observered_linkviews,
    m_active_linklist,
    \* What the transaction did to the group so far: its top-level tables in
    \* order, each "old" or "new", the table index last selected, and whether
    \* every instruction so far was a supported one.
    group,
    \* What the transaction did to the rows of table 0 so far: for each
    \* current row the index it had before the transaction ("new" when the
    \* transaction inserted it), and the indices before the transaction of
    \* the rows it erased.
    table,
    \* What the transaction did to the observed link list so far: for each
    \* current element the position it had before the transaction ("new"
    \* when the transaction inserted it), the positions before the
    \* transaction of the elements removed, the length before it, whether
    \* the log has selected the list, and the link-list instructions so far.
    linkview

registry_vars == <<s_coordinators_per_path, created_for, coordinator_refs, destructing>>
handle_vars == <<m_config, m_notifier, m_cached_realms, realms, realms_to_close>>

query_vars == <<latest, queries, m_queries, m_new_queries, m_query_sg, m_advancer_sg,
                m_async_error, run, realm_sg>>

lock_vars == <<mutex, pc>>

\* The variables the coordinator's data operations leave alone.
log_vars == <<validator, observer, m_changes, m_observered_linkviews, m_active_linklist,
              group, table, linkview>>

other_vars == <<lock_vars, log_vars>>

vars == <<s_coordinators_per_path, created_for, coordinator_refs, destructing,
          m_config, m_notifier, m_cached_realms, realms, realms_to_close,
          latest, queries, m_queries, m_new_queries, m_query_sg, m_advancer_sg,
          m_async_error, run, realm_sg, ret, mutex, pc,
          validator, observer, m_changes, m_observered_linkviews, m_active_linklist,
          group, table, linkview>>

NoRealm == [state |-> "none", coordinator |-> 0, thread |-> 0]

\* A call that returned `result` (0: nothing, nullptr), and one that threw.
Call(op, thread, arg, result) ==
    [op |-> op, thread |-> thread, arg |-> arg, result |-> result, error |-> "none"]

Throw(op, thread, arg, error) ==
    [op |-> op, thread |-> thread, arg |-> arg, result |-> 0, error |-> error]

Range(s) == {s[i] : i \in 1..Len(s)}

-----------------------------------------------------------------------------
(* Shared ownership *)

\* The number of strong references to coordinator c: the threads' shared_ptrs
\* and the m_coordinator of every Realm not yet destroyed.
StrongCount(refs, rlms, c) ==
    Cardinality({t \in Threads : c \in refs[t]})
    + Cardinality({h \in Realms : /\ rlms[h].state \in {"alive", "expired"}
                                  /\ rlms[h].coordinator = c})

\* weak_ptr<RealmCoordinator>::expired() / lock() == nullptr
CoordinatorExpired(c) == StrongCount(coordinator_refs, realms, c) = 0

\* The coordinators that lose their last strong reference in this step.
NewlyExpired(refs, rlms) ==
    {c \in Coordinators : /\ created_for[c] # 0
                          /\ StrongCount(coordinator_refs, realms, c) > 0
                          /\ StrongCount(refs, rlms, c) = 0}

NextCoordinator ==
    IF \E c \in Coordinators : created_for[c] = 0
    THEN CHOOSE c \in Coordinators :
             created_for[c] = 0 /\ \A d \in 1..(c - 1) : created_for[d] # 0
    ELSE 0

NextRealm ==
    IF \E h \in Realms : realms[h].state = "none"
    THEN CHOOSE h \in Realms :
             realms[h].state = "none" /\ \A g \in 1..(h - 1) : realms[g].state # "none"
    ELSE 0

-----------------------------------------------------------------------------
(* Coordinator registry *)

\* A get_coordinator that never looks at the weak entry.
GetCoordinator_AlwaysConstructs(t, p) ==
    /\ NextCoordinator # 0
    /\ created_for' = [created_for EXCEPT ![NextCoordinator] = p]
    /\ s_coordinators_per_path' =
           [s_coordinators_per_path EXCEPT ![p] = NextCoordinator]
    /\ coordinator_refs' =
           [coordinator_refs EXCEPT ![t] = @ \cup {NextCoordinator}]
    /\ ret' = Call("get_coordinator", t, p, NextCoordinator)
    /\ UNCHANGED destructing
    /\ UNCHANGED handle_vars

\* RealmCoordinator::get_coordinator: lock the weak entry, else construct.
GetCoordinator(t, p) ==
    LET c == s_coordinators_per_path[p] IN
    IF c # 0 /\ ~CoordinatorExpired(c)
    THEN /\ coordinator_refs' = [coordinator_refs EXCEPT ![t] = @ \cup {c}]
         /\ ret' = Call("get_coordinator", t, p, c)
         /\ UNCHANGED <<s_coordinators_per_path, created_for, destructing>>
         /\ UNCHANGED handle_vars
    ELSE /\ NextCoordinator # 0
         /\ created_for' = [created_for EXCEPT ![NextCoordinator] = p]
         /\ s_coordinators_per_path' =
                [s_coordinators_per_path EXCEPT ![p] = NextCoordinator]
         /\ coordinator_refs' =
                [coordinator_refs EXCEPT ![t] = @ \cup {NextCoordinator}]
         /\ ret' = Call("get_coordinator", t, p, NextCoordinator)
         /\ UNCHANGED destructing
         /\ UNCHANGED handle_vars

\* RealmCoordinator::get_existing_coordinator: no construction; nullptr (0)
\* when there is no entry or it has expired.
GetExistingCoordinator(t, p) ==
    LET c == s_coordinators_per_path[p]
        found == c # 0 /\ ~CoordinatorExpired(c)
    IN /\ coordinator_refs' =
              [coordinator_refs EXCEPT ![t] = IF found THEN @ \cup {c} ELSE @]
       /\ ret' = Call("get_existing_coordinator", t, p, IF found THEN c ELSE 0)
       /\ UNCHANGED <<s_coordinators_per_path, created_for, destructing>>
       /\ UNCHANGED handle_vars

\* A thread drops its shared_ptr<RealmCoordinator>; the last one to go makes
\* the weak entry expire and the destructor pending.
DropCoordinator(t, c) ==
    /\ c \in coordinator_refs[t]
    /\ LET refs == [coordinator_refs EXCEPT ![t] = @ \ {c}] IN
       /\ coordinator_refs' = refs
       /\ destructing' = destructing \cup NewlyExpired(refs, realms)
    /\ ret' = Call("drop_coordinator", t, c, 0)
    /\ UNCHANGED <<s_coordinators_per_path, created_for>>
    /\ UNCHANGED handle_vars

\* RealmCoordinator::~RealmCoordinator: under s_coordinator_mutex, erase every
\* expired entry; then the members are destroyed.
CoordinatorDestructor(c) ==
    /\ c \in destructing
    /\ s_coordinators_per_path' =
           [p \in Paths |->
               IF s_coordinators_per_path[p] # 0
                  /\ CoordinatorExpired(s_coordinators_per_path[p])
               THEN 0 ELSE s_coordinators_per_path[p]]
    /\ destructing' = destructing \ {c}
    /\ m_config' = [m_config EXCEPT ![c] = DefaultConfig]
    /\ m_notifier' = [m_notifier EXCEPT ![c] = FALSE]
    /\ m_cached_realms' = [m_cached_realms EXCEPT ![c] = <<>>]
    /\ ret' = Call("~RealmCoordinator", 0, c, 0)
    /\ UNCHANGED <<created_for, coordinator_refs, realms, realms_to_close>>

-----------------------------------------------------------------------------
(* Cached-handle table *)

\* CachedRealm: the weak reference (the handle's id), the creating thread and
\* the cache flag.
CachedRealm(h, t, cache) == [realm |-> h, thread |-> t, cache |-> cache]

\* CachedRealm::is_cached_for_current_thread
IsCachedForCurrentThread(e, t) == e.cache /\ e.thread = t

\* CachedRealm::expired: the weak reference no longer upgrades.
Expired(e) == realms[e.realm].state # "alive"

\* CachedRealm::is_for_realm
IsForRealm(e, h) == e.realm = h

\* get_realm, the condition of line 396: the incoming config is captured.
ShouldCapture(c) ==
    \/ ~m_config[c].read_only /\ ~m_notifier[c]
    \/ m_config[c].read_only /\ m_cached_realms[c] = <<>>

\* The checks without the one of the encryption key.
MismatchedConfig_NoKeyCheck(old, config) ==
    \/ old.read_only # config.read_only
    \/ old.in_memory # config.in_memory
    \/ /\ old.schema_version # config.schema_version
       /\ config.schema_version # NotVersioned

\* get_realm, lines 408-419: the checks that throw MismatchedConfigException.
MismatchedConfig(old, config) ==
    \/ old.read_only # config.read_only
    \/ old.in_memory # config.in_memory
    \/ old.encryption_key # config.encryption_key
    \/ /\ old.schema_version # config.schema_version
       /\ config.schema_version # NotVersioned

\* The scan without the test of line 436 that realm() is not null.
CachedRealmFor_NoUpgradeCheck(c, t) ==
    LET tbl == m_cached_realms[c]
        hits == {i \in 1..Len(tbl) : IsCachedForCurrentThread(tbl[i], t)}
    IN IF hits = {} THEN 0 ELSE CHOOSE i \in hits : \A j \in hits : i <= j

\* get_realm, lines 432-440: the index of the first entry that is cached for
\* the calling thread and whose realm() is not null; 0 when there is none.
CachedRealmFor(c, t) ==
    LET tbl == m_cached_realms[c]
        hits == {i \in 1..Len(tbl) :
                    IsCachedForCurrentThread(tbl[i], t) /\ ~Expired(tbl[i])}
    IN IF hits = {} THEN 0 ELSE CHOOSE i \in hits : \A j \in hits : i <= j

\* The flag get_realm records with a new handle (line 445): m_config.cache,
\* m_config being the captured config after line 397.
RecordedCacheFlag(captured, config) == captured.cache

\* get_realm, lines 431-446, with m_config and m_notifier as lines 396-429
\* leave them.
OpenRealm(c, t, config, captured, notifier) ==
    LET i == IF config.cache THEN CachedRealmFor(c, t) ELSE 0 IN
    /\ m_config' = [m_config EXCEPT ![c] = captured]
    /\ m_notifier' = [m_notifier EXCEPT ![c] = notifier]
    /\ IF i # 0
       THEN /\ ret' = Call("get_realm", t, config.cache, m_cached_realms[c][i].realm)
            /\ UNCHANGED <<m_cached_realms, realms>>
       ELSE /\ NextRealm # 0
            /\ realms' = [realms EXCEPT ![NextRealm] =
                   [state |-> "alive", coordinator |-> c, thread |-> t]]
            /\ m_cached_realms' = [m_cached_realms EXCEPT ![c] =
                   Append(@, CachedRealm(NextRealm, t,
                                         RecordedCacheFlag(captured, config)))]
            /\ ret' = Call("get_realm", t, config.cache, NextRealm)

\* RealmCoordinator::get_realm(Realm::Config), called on thread t through a
\* shared_ptr to coordinator c.
GetRealm(c, t, config) ==
    /\ c \in coordinator_refs[t]
    /\ IF ShouldCapture(c)
       THEN IF ~config.read_only /\ ~m_notifier[c]
            THEN \/ OpenRealm(c, t, config, config, TRUE)
                 \/ \* make_unique<ExternalCommitHelper> throws std::system_error
                    /\ m_config' = [m_config EXCEPT ![c] = config]
                    /\ ret' = Throw("get_realm", t, config.cache, "access_error")
                    /\ UNCHANGED <<m_notifier, m_cached_realms, realms>>
            ELSE OpenRealm(c, t, config, config, m_notifier[c])
       ELSE IF MismatchedConfig(m_config[c], config)
            THEN /\ ret' = Throw("get_realm", t, config.cache, "mismatched_config")
                 /\ UNCHANGED <<m_config, m_notifier, m_cached_realms, realms>>
            ELSE OpenRealm(c, t, config, m_config[c], m_notifier[c])
    /\ UNCHANGED registry_vars
    /\ UNCHANGED realms_to_close

\* unregister_realm's loop from index i on (1-based): an entry that is
\* expired or is for `h` is overwritten by the last entry, the last entry is
\* popped, and the loop goes on with i + 1.
RECURSIVE UnregisterFrom(_, _, _)
UnregisterFrom(tbl, h, i) ==
    IF i > Len(tbl) THEN tbl
    ELSE IF ~Expired(tbl[i]) /\ ~IsForRealm(tbl[i], h)
         THEN UnregisterFrom(tbl, h, i + 1)
         ELSE LET moved == IF i + 1 <= Len(tbl)
                           THEN [tbl EXCEPT ![i] = tbl[Len(tbl)]] ELSE tbl
              IN UnregisterFrom(SubSeq(moved, 1, Len(tbl) - 1), h, i + 1)

\* RealmCoordinator::unregister_realm as a function of the table.
UnregisterRealm(tbl, h) == UnregisterFrom(tbl, h, 1)

\* The consumer drops its last shared_ptr<Realm>: the weak references expire
\* and the Realm's destructor is pending.
DropRealm(h) ==
    /\ realms[h].state = "alive"
    /\ realms' = [realms EXCEPT ![h].state = "expired"]
    /\ ret' = Call("drop_realm", realms[h].thread, h, 0)
    /\ UNCHANGED registry_vars
    /\ UNCHANGED <<m_config, m_notifier, m_cached_realms, realms_to_close>>

\* The Realm's destructor: unregister_realm(this) on its coordinator, then
\* its shared_ptr to the coordinator is released.
RealmDestructor(h) ==
    /\ realms[h].state = "expired"
    /\ LET c == realms[h].coordinator
           gone == [realms EXCEPT ![h].state = "gone"]
       IN /\ m_cached_realms' = [m_cached_realms EXCEPT ![c] = UnregisterRealm(@, h)]
          /\ realms' = gone
          /\ destructing' = destructing \cup NewlyExpired(coordinator_refs, gone)
    /\ ret' = Call("unregister_realm", realms[h].thread, h, 0)
    /\ UNCHANGED <<s_coordinators_per_path, created_for, coordinator_refs>>
    /\ UNCHANGED <<m_config, m_notifier, realms_to_close>>

\* Realm::close on a live handle: it unregisters the handle from its
\* coordinator; the handle stays usable and is no longer cached.
CloseRealm(h) ==
    /\ realms[h].state = "alive"
    /\ m_cached_realms' =
           [m_cached_realms EXCEPT ![realms[h].coordinator] = UnregisterRealm(@, h)]
    /\ ret' = Call("unregister_realm", realms[h].thread, h, 0)
    /\ UNCHANGED registry_vars
    /\ UNCHANGED <<m_config, m_notifier, realms, realms_to_close>>

\* clear_cache, lines 496-510: the live handles of the live coordinators of
\* the paths from p on, in the order of the tables.
RECURSIVE GatherRealms(_)
GatherRealms(p) ==
    IF p > NumPaths THEN <<>>
    ELSE LET c == s_coordinators_per_path[p]
             tbl == IF c # 0 /\ ~CoordinatorExpired(c)
                    THEN SelectSeq(m_cached_realms[c], LAMBDA e : ~Expired(e))
                    ELSE <<>>
         IN [i \in 1..Len(tbl) |-> tbl[i].realm] \o GatherRealms(p + 1)

\* RealmCoordinator::clear_cache, lines 492-513: under s_coordinator_mutex,
\* null every live coordinator's notifier, gather the live handles and clear
\* the map.
ClearCacheGather(t) ==
    /\ realms_to_close = <<>>
    /\ m_notifier' =
           [c \in Coordinators |->
               IF \E p \in Paths : /\ s_coordinators_per_path[p] = c
                                   /\ ~CoordinatorExpired(c)
               THEN FALSE ELSE m_notifier[c]]
    /\ realms_to_close' = GatherRealms(1)
    /\ s_coordinators_per_path' = [p \in Paths |-> 0]
    /\ ret' = Call("clear_cache", t, 0, 0)
    /\ UNCHANGED <<created_for, coordinator_refs, destructing>>
    /\ UNCHANGED <<m_config, m_cached_realms, realms>>

\* clear_cache, lines 517-521: after the mutex is released, close the next
\* gathered handle if its weak reference still upgrades.
ClearCacheClose ==
    /\ realms_to_close # <<>>
    /\ LET h == Head(realms_to_close) IN
       IF realms[h].state = "alive"
       THEN /\ m_cached_realms' = [m_cached_realms EXCEPT
                   ![realms[h].coordinator] = UnregisterRealm(@, h)]
            /\ ret' = Call("unregister_realm", realms[h].thread, h, 0)
       ELSE /\ ret' = Call("clear_cache_skip", 0, h, 0)
            /\ UNCHANGED m_cached_realms
    /\ realms_to_close' = Tail(realms_to_close)
    /\ UNCHANGED registry_vars
    /\ UNCHANGED <<m_config, m_notifier, realms>>

-----------------------------------------------------------------------------
(* Async-query registry and runner *)

NoQuery ==
    [state |-> "none", version |-> 0, attached |-> "none", handover |-> FALSE,
     passed |-> "uncalled"]

\* A query after release_query and its removal from the lists.
ReleasedQuery == [NoQuery EXCEPT !.state = "released"]

\* AsyncQuery::is_alive
IsAlive(q) == queries[q].state = "alive"

\* A helper SharedGroup: the null pointer, SharedGroup::begin_read(version),
\* SharedGroup::end_read, LangBindHelper::advance_read to a version. faults
\* records the calls made out of turn: begin_read on a snapshot that holds a
\* read transaction, end_read or advance_read on one that holds none, and
\* advance_read to a version older than the one held.
NullSharedGroup == [open |-> FALSE, reading |-> FALSE, version |-> 0, faults |-> {}]
BeginRead(sg, v) ==
    [open |-> TRUE, reading |-> TRUE, version |-> v,
     faults |-> sg.faults \cup (IF sg.reading THEN {"begin_read"} ELSE {})]
EndRead(sg) ==
    [sg EXCEPT !.reading = FALSE, !.version = 0,
               !.faults = @ \cup (IF sg.reading THEN {} ELSE {"end_read"})]
AdvanceRead(sg, v) ==
    [sg EXCEPT !.version = v,
               !.faults = @ \cup (IF sg.reading THEN {} ELSE {"advance_read"})
                            \cup (IF v < sg.version THEN {"backwards"} ELSE {})]

NextQuery ==
    IF \E q \in Queries : queries[q].state = "none"
    THEN CHOOSE q \in Queries :
             queries[q].state = "none" /\ \A r \in 1..(q - 1) : queries[r].state # "none"
    ELSE 0

\* A pin_version that keeps the read transaction it has while there are
\* pending queries, whatever the version asked for.
PinVersion_NoRepin(v, open_ok) ==
    IF m_async_error # "none"
    THEN [advancer_sg |-> m_advancer_sg, async_error |-> m_async_error]
    ELSE IF ~m_advancer_sg.open
    THEN IF open_ok
         THEN [advancer_sg |-> BeginRead(NullSharedGroup, v), async_error |-> "none"]
         ELSE [advancer_sg |-> NullSharedGroup, async_error |-> "advancer_open_failed"]
    ELSE IF m_new_queries = <<>>
    THEN [advancer_sg |-> BeginRead(m_advancer_sg, v), async_error |-> "none"]
    ELSE [advancer_sg |-> m_advancer_sg, async_error |-> "none"]

\* A pin_version that does not look at m_async_error.
PinVersion_IgnoresError(v, open_ok) ==
    IF ~m_advancer_sg.open
    THEN IF open_ok
         THEN [advancer_sg |-> BeginRead(NullSharedGroup, v), async_error |-> "none"]
         ELSE [advancer_sg |-> NullSharedGroup, async_error |-> "advancer_open_failed"]
    ELSE IF m_new_queries = <<>>
    THEN [advancer_sg |-> BeginRead(m_advancer_sg, v), async_error |-> m_async_error]
    ELSE IF v < m_advancer_sg.version
    THEN [advancer_sg |-> BeginRead(EndRead(m_advancer_sg), v), async_error |-> m_async_error]
    ELSE [advancer_sg |-> m_advancer_sg, async_error |-> m_async_error]

\* RealmCoordinator::pin_version: the advancer snapshot and the async error
\* it leaves; open_ok says whether open_with_config and begin_read succeed.
PinVersion(v, open_ok) ==
    IF m_async_error # "none"
    THEN [advancer_sg |-> m_advancer_sg, async_error |-> m_async_error]
    ELSE IF ~m_advancer_sg.open
    THEN IF open_ok
         THEN [advancer_sg |-> BeginRead(NullSharedGroup, v), async_error |-> "none"]
         ELSE [advancer_sg |-> NullSharedGroup, async_error |-> "advancer_open_failed"]
    ELSE IF m_new_queries = <<>>
    THEN [advancer_sg |-> BeginRead(m_advancer_sg, v), async_error |-> "none"]
    ELSE IF v < m_advancer_sg.version
    THEN [advancer_sg |-> BeginRead(EndRead(m_advancer_sg), v), async_error |-> "none"]
    ELSE [advancer_sg |-> m_advancer_sg, async_error |-> "none"]

\* RealmCoordinator::register_query for a new query whose version() is v.
RegisterQuery(v, open_ok) ==
    /\ NextQuery # 0
    /\ LET pinned == PinVersion(v, open_ok) IN
       /\ m_advancer_sg' = pinned.advancer_sg
       /\ m_async_error' = pinned.async_error
    /\ queries' = [queries EXCEPT ![NextQuery] =
                      [NoQuery EXCEPT !.state = "alive", !.version = v]]
    /\ m_new_queries' = Append(m_new_queries, NextQuery)
    /\ ret' = Call("register_query", 0, v, NextQuery)
    /\ UNCHANGED <<latest, m_queries, m_query_sg, run, realm_sg>>

\* The consumer lets go of a query: is_alive() turns false.
KillQuery(q) ==
    /\ queries[q].state = "alive"
    /\ queries' = [queries EXCEPT ![q].state = "dead"]
    /\ ret' = Call("kill_query", 0, q, 0)
    /\ UNCHANGED <<latest, m_queries, m_new_queries, m_query_sg, m_advancer_sg,
                   m_async_error, run, realm_sg>>

\* Another writer commits a new version.
Commit ==
    /\ latest < MaxVersion
    /\ latest' = latest + 1
    /\ ret' = Call("commit", 0, 0, latest + 1)
    /\ UNCHANGED <<queries, m_queries, m_new_queries, m_query_sg, m_advancer_sg,
                   m_async_error, run, realm_sg>>

\* clean_up_dead_queries' swap_remove from index i on (1-based): a dead
\* entry is overwritten by the last one, the last is popped, and the same
\* index is looked at again.
RECURSIVE SwapRemoveFrom(_, _, _)
SwapRemoveFrom(qs, container, i) ==
    IF i > Len(container) THEN container
    ELSE IF qs[container[i]].state = "alive"
         THEN SwapRemoveFrom(qs, container, i + 1)
         ELSE LET moved == IF Len(container) > i
                           THEN [container EXCEPT ![i] = container[Len(container)]]
                           ELSE container
              IN SwapRemoveFrom(qs, SubSeq(moved, 1, Len(container) - 1), i)

\* RealmCoordinator::clean_up_dead_queries on the given lists and query
\* objects: the lists, the helper snapshots and the query objects it leaves.
CleanUpDeadQueries(qs, main, pending, query_sg, advancer_sg) ==
    LET main2 == SwapRemoveFrom(qs, main, 1)
        pending2 == SwapRemoveFrom(qs, pending, 1)
        removed == (Range(main) \cup Range(pending))
                       \ (Range(main2) \cup Range(pending2))
    IN [m_queries |-> main2,
        m_new_queries |-> pending2,
        m_query_sg |-> IF main2 # main /\ main2 = <<>> /\ query_sg.open
                       THEN EndRead(query_sg) ELSE query_sg,
        m_advancer_sg |-> IF pending2 # pending /\ pending2 = <<>> /\ advancer_sg.open
                          THEN EndRead(advancer_sg) ELSE advancer_sg,
        queries |-> [q \in Queries |-> IF q \in removed THEN ReleasedQuery ELSE qs[q]]]

\* RealmCoordinator::open_helper_shared_group: the query snapshot and the
\* async error it leaves.
OpenHelperSharedGroup(query_sg, main, open_ok) ==
    IF ~query_sg.open
    THEN IF open_ok
         THEN [query_sg |-> BeginRead(NullSharedGroup, latest), async_error |-> "none"]
         ELSE [query_sg |-> NullSharedGroup, async_error |-> "query_open_failed"]
    ELSE IF main = <<>>
    THEN [query_sg |-> BeginRead(query_sg, latest), async_error |-> "none"]
    ELSE [query_sg |-> query_sg, async_error |-> "none"]

\* A move_new_queries_to_main that clears m_new_queries without moving.
MoveNewQueriesToMain_Drops(main, pending) == main

\* RealmCoordinator::move_new_queries_to_main
MoveNewQueriesToMain(main, pending) == main \o pending

\* std::sort of m_new_queries by version(): every arrangement in which the
\* versions ascend (std::sort leaves the order of equal versions open).
SortedByVersion(qs, pending) ==
    {s \in [1..Len(pending) -> Range(pending)] :
        /\ \A i, j \in 1..Len(pending) : i # j => s[i] # s[j]
        /\ \A i, j \in 1..Len(pending) : i < j => qs[s[i]].version <= qs[s[j]].version}

\* advance_helper_shared_group_to_latest, lines 704-707: the advancer after it
\* was advanced to the version of each pending query in turn, from the i-th.
RECURSIVE ImportQueries(_, _, _, _)
ImportQueries(qs, sorted, i, advancer_sg) ==
    IF i > Len(sorted) THEN advancer_sg
    ELSE ImportQueries(qs, sorted, i + 1, AdvanceRead(advancer_sg, qs[sorted[i]].version))

\* An advance_helper_shared_group_to_latest that advances the query snapshot
\* to the newest version instead of naming the advancer's version.
AdvanceHelperSharedGroupToLatest_Untargeted(qs, main, sorted, query_sg, advancer_sg, newest) ==
    IF sorted = <<>>
    THEN [m_query_sg |-> AdvanceRead(query_sg, latest),
          m_advancer_sg |-> advancer_sg,
          m_queries |-> main,
          queries |-> qs,
          advancer_reached |-> 0]
    ELSE LET imported == ImportQueries(qs, sorted, 1, advancer_sg)
             advanced == AdvanceRead(imported, latest)
         IN [m_query_sg |-> AdvanceRead(query_sg, newest),
             m_advancer_sg |-> EndRead(advanced),
             m_queries |-> MoveNewQueriesToMain(main, sorted),
             queries |-> [q \in Queries |->
                             IF q \in Range(sorted)
                             THEN [qs[q] EXCEPT !.attached = "query"] ELSE qs[q]],
             advancer_reached |-> advanced.version]

\* RealmCoordinator::advance_helper_shared_group_to_latest, given the sorted
\* pending queries: the snapshots, the lists and the query objects it leaves,
\* and the version the advancer reached before its read was ended. latest is
\* the newest version when the advancer is advanced (line 710), newest the
\* newest version when the query snapshot is advanced (line 711), which is
\* told to stop at the advancer's version.
AdvanceHelperSharedGroupToLatest(qs, main, sorted, query_sg, advancer_sg, newest) ==
    IF sorted = <<>>
    THEN [m_query_sg |-> AdvanceRead(query_sg, latest),
          m_advancer_sg |-> advancer_sg,
          m_queries |-> main,
          queries |-> qs,
          advancer_reached |-> 0]
    ELSE LET imported == ImportQueries(qs, sorted, 1, advancer_sg)
             advanced == AdvanceRead(imported, latest)
         IN [m_query_sg |-> AdvanceRead(query_sg, advanced.version),
             m_advancer_sg |-> EndRead(advanced),
             m_queries |-> MoveNewQueriesToMain(main, sorted),
             queries |-> [q \in Queries |->
                             IF q \in Range(sorted)
                             THEN [qs[q] EXCEPT !.attached = "query"] ELSE qs[q]],
             advancer_reached |-> advanced.version]

IdleRun == [pc |-> "idle", queries_to_run |-> <<>>, covered |-> {}, advanced_to |-> 0]

\* RealmCoordinator::on_change up to the point where run_async_queries
\* releases the query lock (line 644), or to its end when it returns early.
\* The notify fan-out over m_cached_realms changes nothing of the model.
OnChangeBegin(open_ok) ==
    /\ run.pc = "idle"
    /\ LET covered == {q \in Range(m_new_queries) : IsAlive(q)}
           cleaned == CleanUpDeadQueries(queries, m_queries, m_new_queries,
                                         m_query_sg, m_advancer_sg)
           opened == IF m_async_error = "none"
                     THEN OpenHelperSharedGroup(cleaned.m_query_sg, cleaned.m_queries, open_ok)
                     ELSE [query_sg |-> cleaned.m_query_sg, async_error |-> m_async_error]
       IN IF cleaned.m_queries = <<>> /\ cleaned.m_new_queries = <<>>
          THEN /\ m_queries' = cleaned.m_queries
               /\ m_new_queries' = cleaned.m_new_queries
               /\ m_query_sg' = cleaned.m_query_sg
               /\ m_advancer_sg' = cleaned.m_advancer_sg
               /\ queries' = cleaned.queries
               /\ ret' = Call("on_change", 0, covered, 0)
               /\ UNCHANGED <<latest, m_async_error, run>>
          ELSE IF opened.async_error # "none"
          THEN /\ m_queries' = MoveNewQueriesToMain(cleaned.m_queries, cleaned.m_new_queries)
               /\ m_new_queries' = <<>>
               /\ m_query_sg' = opened.query_sg
               /\ m_advancer_sg' = cleaned.m_advancer_sg
               /\ m_async_error' = opened.async_error
               /\ queries' = cleaned.queries
               /\ ret' = Call("on_change", 0, covered, 0)
               /\ UNCHANGED <<latest, run>>
          ELSE \E sorted \in SortedByVersion(cleaned.queries, cleaned.m_new_queries),
                  newest \in latest..MaxVersion :
               LET advanced == AdvanceHelperSharedGroupToLatest(cleaned.queries,
                                   cleaned.m_queries, sorted, opened.query_sg,
                                   cleaned.m_advancer_sg, newest)
               IN /\ sorted = <<>> => newest = latest
                  /\ latest' = newest
                  /\ m_queries' = advanced.m_queries
                  /\ m_new_queries' = <<>>
                  /\ m_query_sg' = advanced.m_query_sg
                  /\ m_advancer_sg' = advanced.m_advancer_sg
                  /\ queries' = advanced.queries
                  /\ run' = [pc |-> "running", queries_to_run |-> advanced.m_queries,
                             covered |-> covered, advanced_to |-> latest]
                  /\ ret' = Call("run_async_queries", 0, covered, advanced.advancer_reached)
                  /\ UNCHANGED m_async_error
    /\ UNCHANGED realm_sg

\* AsyncQuery::prepare_handover: the result is staged for the version of the
\* query snapshot it was computed at.
PrepareHandover(qs, q) ==
    [qs EXCEPT ![q].handover = TRUE, ![q].version = m_query_sg.version]

RECURSIVE PrepareHandovers(_, _, _)
PrepareHandovers(qs, to_run, i) ==
    IF i > Len(to_run) THEN qs
    ELSE PrepareHandovers(PrepareHandover(qs, to_run[i]), to_run, i + 1)

\* run_async_queries from line 653 on: the lock is taken again, every query
\* of queries_to_run prepares its handover, dead queries are cleaned up; then
\* on_change notifies the handles.
OnChangeEnd ==
    /\ run.pc = "running"
    /\ LET prepared == PrepareHandovers(queries, run.queries_to_run, 1)
           cleaned == CleanUpDeadQueries(prepared, m_queries, m_new_queries,
                                         m_query_sg, m_advancer_sg)
       IN /\ m_queries' = cleaned.m_queries
          /\ m_new_queries' = cleaned.m_new_queries
          /\ m_query_sg' = cleaned.m_query_sg
          /\ m_advancer_sg' = cleaned.m_advancer_sg
          /\ queries' = cleaned.queries
    /\ run' = IdleRun
    /\ ret' = Call("on_change", 0, run.covered, run.advanced_to)
    /\ UNCHANGED <<latest, m_async_error, realm_sg>>

\* AsyncQuery::deliver(sg, err) on query q with the handle's snapshot at
\* sg_version: with an error it takes the error and accepts; without, it
\* accepts a staged result of the handle's version, and its version() is the
\* sentinel from then on.
Accepts(qs, q, sg_version, err) ==
    \/ err # "none"
    \/ qs[q].handover /\ qs[q].version = sg_version

Deliver(qs, q, sg_version, err) ==
    IF err # "none" THEN [qs EXCEPT ![q].passed = err]
    ELSE IF Accepts(qs, q, sg_version, err)
    THEN [qs EXCEPT ![q].passed = err, ![q].handover = FALSE, ![q].version = 0]
    ELSE [qs EXCEPT ![q].passed = err]

RECURSIVE DeliverAll(_, _, _, _, _)
DeliverAll(qs, main, i, sg_version, err) ==
    IF i > Len(main) THEN qs
    ELSE DeliverAll(Deliver(qs, main[i], sg_version, err), main, i + 1, sg_version, err)

\* The queries of m_queries whose deliver returned true.
Accepted(sg_version) ==
    {i \in 1..Len(m_queries) : Accepts(queries, m_queries[i], sg_version, m_async_error)}

\* advance_to_ready, lines 734-740: the version the loop ends with, which is
\* the version() of the first query of the list whose version() is not the
\* sentinel (0), and the sentinel when there is none.
RECURSIVE TargetVersionFrom(_, _)
TargetVersionFrom(main, i) ==
    IF i > Len(main) THEN 0
    ELSE IF queries[main[i]].version # 0 THEN queries[main[i]].version
    ELSE TargetVersionFrom(main, i + 1)

TargetVersion(main) == TargetVersionFrom(main, 1)

\* RealmCoordinator::advance_to_ready on the consumer handle.
AdvanceToReady ==
    LET version == TargetVersion(m_queries) IN
    /\ IF version = 0
       THEN /\ realm_sg' = latest
            /\ ret' = Call("advance_to_ready", 0, 0, 0)
            /\ UNCHANGED queries
       ELSE IF version < realm_sg
       THEN /\ ret' = Call("advance_to_ready", 0, 0, 0)
            /\ UNCHANGED <<realm_sg, queries>>
       ELSE /\ realm_sg' = version
            /\ queries' = DeliverAll(queries, m_queries, 1, version, m_async_error)
            /\ ret' = Call("advance_to_ready", 0, Len(m_queries),
                           Cardinality(Accepted(version)))
    /\ UNCHANGED <<latest, m_queries, m_new_queries, m_query_sg, m_advancer_sg,
                   m_async_error, run>>

\* RealmCoordinator::process_available_async on the consumer handle.
ProcessAvailableAsync ==
    /\ queries' = DeliverAll(queries, m_queries, 1, realm_sg, m_async_error)
    /\ ret' = Call("process_available_async", 0, Len(m_queries),
                   Cardinality(Accepted(realm_sg)))
    /\ UNCHANGED <<latest, m_queries, m_new_queries, m_query_sg, m_advancer_sg,
                   m_async_error, run, realm_sg>>

-----------------------------------------------------------------------------
(* The mutexes: which method takes which, around which accesses *)

Locks == {"registry", "handle", "query"}

\* A step of a method that matters to the locks: "lock" or "unlock" of a
\* mutex, "read" or "write" of a member, "call" of a collaborator.
Step(kind, what) == [kind |-> kind, what |-> what]

\* RealmCoordinator::get_coordinator
GetCoordinatorSteps ==
    <<Step("lock", "registry"), Step("write", "s_coordinators_per_path"),
      Step("unlock", "registry")>>

\* RealmCoordinator::get_realm(Realm::Config), the path that captures the
\* config, makes the notifier, scans the table and records a new handle.
GetRealmSteps ==
    <<Step("lock", "handle"),
      Step("read", "m_config"), Step("read", "m_notifier"), Step("read", "m_cached_realms"),
      Step("write", "m_config"), Step("write", "m_notifier"),
      Step("read", "m_cached_realms"), Step("write", "m_cached_realms"),
      Step("unlock", "handle")>>

\* RealmCoordinator::get_realm(): m_config is copied into the argument of
\* get_realm(Realm::Config) before that takes the mutex.
GetRealmNoArgSteps == <<Step("read", "m_config")>> \o GetRealmSteps

\* RealmCoordinator::get_schema
GetSchemaSteps == <<Step("read", "m_cached_realms"), Step("read", "m_config")>>

\* RealmCoordinator::~RealmCoordinator
CoordinatorDestructorSteps ==
    <<Step("lock", "registry"), Step("write", "s_coordinators_per_path"),
      Step("unlock", "registry")>>

\* RealmCoordinator::unregister_realm
UnregisterRealmSteps ==
    <<Step("lock", "handle"), Step("write", "m_cached_realms"), Step("unlock", "handle")>>

\* A clear_cache that closes the gathered handles inside the scope of the
\* registry lock's guard.
ClearCacheSteps_ClosesUnderLock ==
    <<Step("lock", "registry"),
      Step("read", "s_coordinators_per_path"),
      Step("write", "m_notifier"),
      Step("read", "m_cached_realms"),
      Step("write", "s_coordinators_per_path"),
      Step("call", "Realm::close")>>
    \o UnregisterRealmSteps
    \o <<Step("unlock", "registry")>>

\* RealmCoordinator::clear_cache when every gathered handle stays referenced
\* by its consumer: the gather under the registry lock (lines 494-513), then
\* Realm::close on each gathered handle (lines 517-521), which calls
\* unregister_realm.
ClearCacheSteps ==
    <<Step("lock", "registry"),
      Step("read", "s_coordinators_per_path"),
      Step("write", "m_notifier"),
      Step("read", "m_cached_realms"),
      Step("write", "s_coordinators_per_path"),
      Step("unlock", "registry"),
      Step("call", "Realm::close")>>
    \o UnregisterRealmSteps

\* clear_cache when the shared_ptr<Realm> of line 506 is the last reference
\* to the handle: the Realm is destroyed at line 508, inside the gather loop,
\* and its destructor calls unregister_realm.
ClearCacheLastReferenceSteps ==
    <<Step("lock", "registry"),
      Step("read", "s_coordinators_per_path"),
      Step("write", "m_notifier"),
      Step("read", "m_cached_realms"),
      Step("call", "Realm::~Realm")>>
    \o UnregisterRealmSteps
    \o <<Step("write", "s_coordinators_per_path"), Step("unlock", "registry")>>

\* RealmCoordinator::send_commit_notifications
SendCommitNotificationsSteps == <<Step("read", "m_config"), Step("read", "m_notifier")>>

\* RealmCoordinator::register_query: pin_version (the error is read, the
\* advancer snapshot is opened, begun or re-begun, the error is stored when
\* opening fails), then the push_back.
RegisterQuerySteps ==
    <<Step("lock", "query"),
      Step("read", "m_async_error"), Step("read", "m_new_queries"),
      Step("write", "m_advancer_sg"), Step("write", "m_async_error"),
      Step("write", "m_new_queries"),
      Step("unlock", "query")>>

\* RealmCoordinator::clean_up_dead_queries: each list is pruned and its
\* snapshot's read transaction ended when the list became empty.
CleanUpDeadQueriesSteps ==
    <<Step("write", "m_queries"), Step("write", "m_query_sg"),
      Step("write", "m_new_queries"), Step("write", "m_advancer_sg")>>

\* run_async_queries up to the copy of m_queries: clean_up_dead_queries, the
\* emptiness test, open_helper_shared_group, and
\* advance_helper_shared_group_to_latest (sort, import through the advancer
\* snapshot, advance both, move_new_queries_to_main, end the advancer's read
\* transaction).
AdvanceSteps ==
    CleanUpDeadQueriesSteps
    \o <<Step("read", "m_queries"), Step("read", "m_new_queries"),
         Step("read", "m_async_error"),
         Step("read", "m_queries"), Step("write", "m_query_sg"),
         Step("write", "m_async_error"),
         Step("read", "m_async_error"),
         Step("write", "m_new_queries"), Step("write", "m_advancer_sg"),
         Step("write", "m_query_sg"),
         Step("write", "m_queries"), Step("write", "m_new_queries"),
         Step("write", "m_advancer_sg"),
         Step("read", "m_queries")>>

\* A run_async_queries that keeps the query lock while it runs the queries.
RunAsyncQueriesSteps_RunsUnderLock ==
    <<Step("lock", "query")>>
    \o AdvanceSteps
    \o <<Step("call", "AsyncQuery::run"),
         Step("call", "AsyncQuery::prepare_handover")>>
    \o CleanUpDeadQueriesSteps
    \o <<Step("unlock", "query")>>

\* RealmCoordinator::run_async_queries, the path that runs the queries.
RunAsyncQueriesSteps ==
    <<Step("lock", "query")>>
    \o AdvanceSteps
    \o <<Step("unlock", "query"),
         Step("call", "AsyncQuery::run"),
         Step("lock", "query"),
         Step("call", "AsyncQuery::prepare_handover")>>
    \o CleanUpDeadQueriesSteps
    \o <<Step("unlock", "query")>>

\* RealmCoordinator::on_change
OnChangeSteps ==
    RunAsyncQueriesSteps
    \o <<Step("lock", "handle"), Step("read", "m_cached_realms"), Step("unlock", "handle")>>

\* RealmCoordinator::advance_to_ready, the path that delivers.
AdvanceToReadySteps ==
    <<Step("lock", "query"),
      Step("read", "m_queries"),
      Step("read", "m_queries"),
      Step("read", "m_async_error"),
      Step("call", "AsyncQuery::deliver"),
      Step("unlock", "query"),
      Step("call", "AsyncQuery::call_callbacks")>>

\* RealmCoordinator::process_available_async
ProcessAvailableAsyncSteps ==
    <<Step("lock", "query"),
      Step("read", "m_queries"),
      Step("read", "m_async_error"),
      Step("call", "AsyncQuery::deliver"),
      Step("unlock", "query"),
      Step("call", "AsyncQuery::call_callbacks")>>

Methods ==
    {"get_coordinator", "get_realm", "get_realm()",
     "get_schema", "~RealmCoordinator", "unregister_realm", "clear_cache",
     "clear_cache (last reference)", "send_commit_notifications",
     "register_query", "on_change", "advance_to_ready", "process_available_async"}

Steps(method) ==
    CASE method = "get_coordinator" -> GetCoordinatorSteps
      [] method = "get_realm" -> GetRealmSteps
      [] method = "get_realm()" -> GetRealmNoArgSteps
      [] method = "get_schema" -> GetSchemaSteps
      [] method = "~RealmCoordinator" -> CoordinatorDestructorSteps
      [] method = "unregister_realm" -> UnregisterRealmSteps
      [] method = "clear_cache" -> ClearCacheSteps
      [] method = "clear_cache (last reference)" -> ClearCacheLastReferenceSteps
      [] method = "send_commit_notifications" -> SendCommitNotificationsSteps
      [] method = "register_query" -> RegisterQuerySteps
      [] method = "on_change" -> OnChangeSteps
      [] method = "advance_to_ready" -> AdvanceToReadySteps
      [] method = "process_available_async" -> ProcessAvailableAsyncSteps
      [] OTHER -> <<>>

Idle == [method |-> "idle", at |-> 0]

\* The step thread t executes next; none when it is idle.
NextStepOf(t) ==
    IF pc[t].method = "idle" THEN Step("none", "none") ELSE Steps(pc[t].method)[pc[t].at]

\* The position after the step at pc[t]: the method returns after its last.
Advanced(t) ==
    IF pc[t].at = Len(Steps(pc[t].method)) THEN Idle
    ELSE [pc[t] EXCEPT !.at = @ + 1]

\* Thread t calls a method.
Enter(t, method) ==
    /\ pc[t] = Idle
    /\ pc' = [pc EXCEPT ![t] = [method |-> method, at |-> 1]]
    /\ UNCHANGED mutex

\* std::lock_guard / std::unique_lock: blocks until the mutex is free.
Acquire(t) ==
    /\ NextStepOf(t).kind = "lock"
    /\ mutex[NextStepOf(t).what] = 0
    /\ mutex' = [mutex EXCEPT ![NextStepOf(t).what] = t]
    /\ pc' = [pc EXCEPT ![t] = Advanced(t)]

\* The end of the guard's scope, or unique_lock::unlock.
Release(t) ==
    /\ NextStepOf(t).kind = "unlock"
    /\ mutex' = [mutex EXCEPT ![NextStepOf(t).what] = 0]
    /\ pc' = [pc EXCEPT ![t] = Advanced(t)]

\* A read or a write of a member, a call into a collaborator.
Execute(t) ==
    /\ NextStepOf(t).kind \in {"read", "write", "call"}
    /\ pc' = [pc EXCEPT ![t] = Advanced(t)]
    /\ UNCHANGED mutex

-----------------------------------------------------------------------------
(* TransactLogValidator *)

MaxTables == 3

\* A freshly constructed TransactLogValidator.
NewValidator == [m_current_table |-> 0, m_new_tables |-> <<>>, error |-> "none"]

\* schema_error(): throws std::runtime_error.
schema_error(v) == [v EXCEPT !.error = "Schema mismatch detected"]

\* A handler returned false.
ReturnedFalse(v) == [v EXCEPT !.error = "returned false"]

schema_error_unless_new_table(v) ==
    IF v.m_current_table \notin Range(v.m_new_tables) THEN schema_error(v) ELSE v

\* The m_new_tables of a validator that does not shift the tables it
\* recorded.
Validator_insert_group_level_table_NoShift(v, table_ndx) ==
    [v EXCEPT !.m_new_tables = Append(v.m_new_tables, table_ndx)]

Validator_insert_group_level_table(v, table_ndx) ==
    [v EXCEPT !.m_new_tables =
        Append([i \in 1..Len(v.m_new_tables) |->
                    IF v.m_new_tables[i] >= table_ndx
                    THEN v.m_new_tables[i] + 1
                    ELSE v.m_new_tables[i]],
               table_ndx)]

Validator_select_descriptor(v, levels) == IF levels = 0 THEN v ELSE ReturnedFalse(v)

Validator_select_table(v, group_level_ndx) == [v EXCEPT !.m_current_table = group_level_ndx]

\* The instructions that need a table created in the same transaction, the
\* ones that always throw, and some of the ones every handler of both
\* classes answers with `return true` and nothing else.
NewTableInstructions == {"insert_column", "insert_link_column", "add_primary_key", "set_link_type"}

UnsupportedInstructions ==
    {"erase_group_level_table", "rename_group_level_table", "erase_column",
     "erase_link_column", "rename_column", "remove_primary_key", "move_column",
     "move_group_level_table"}

AcceptedInstructions ==
    {"add_search_index", "remove_search_index", "swap_rows", "clear_table", "optimize_table"}

\* The row value setters: the validator returns true, the observer calls
\* mark_dirty.
RowSetters ==
    {"set_int", "set_bool", "set_float", "set_double", "set_string", "set_binary",
     "set_date_time", "set_table", "set_mixed", "set_link", "set_null", "nullify_link",
     "insert_substring", "erase_substring", "set_int_unique", "set_string_unique"}

\* TransactLogObserver::insert_group_level_table hides the validator's.
Observer_insert_group_level_table(o, table_ndx) == ReturnedFalse(o)

-----------------------------------------------------------------------------
(* TransactLogObserver: rows *)

MaxRows == 4
MaxDeletions == 2

\* A default-constructed ChangeInfo.
EmptyChangeInfo == [deletions |-> 0, moves |-> <<>>, changed |-> {}]

\* get_change(i): the vector grows to max(2 * size, i + 1) when i is past
\* its end; the ChangeInfo of table i is at position i + 1 of the sequence.
get_change(changes, i) ==
    IF Len(changes) <= i
    THEN LET size == IF Len(changes) * 2 >= i + 1 THEN Len(changes) * 2 ELSE i + 1
         IN  changes \o [k \in 1..(size - Len(changes)) |-> EmptyChangeInfo]
    ELSE changes

\* A mark_dirty that records the row index it was given.
mark_dirty_NoRemap(changes, current_table, row) ==
    [get_change(changes, current_table) EXCEPT ![current_table + 1].changed = @ \cup {row}]

mark_dirty(changes, current_table, row) ==
    LET resized == get_change(changes, current_table)
        moves == resized[current_table + 1].moves
        remapped == IF row \in DOMAIN moves THEN moves[row] ELSE row
    IN  [resized EXCEPT ![current_table + 1].changed = @ \cup {remapped}]

Observer_erase_rows(changes, current_table, row_ndx, prior_num_rows) ==
    LET resized == get_change(changes, current_table)
        moves == resized[current_table + 1].moves
        last_row_ndx ==
            IF prior_num_rows - 1 \in DOMAIN moves
            THEN moves[prior_num_rows - 1]
            ELSE prior_num_rows - 1
    IN  [resized EXCEPT ![current_table + 1].moves = (row_ndx :> last_row_ndx) @@ moves,
                        ![current_table + 1].deletions = @ + 1]

-----------------------------------------------------------------------------
(* A transaction log read by a validator and by an observer *)

\* A handler object is called until it throws or returns false.
Accepting(h) == h.error = "none"

Fed(h, after) == IF Accepting(h) THEN after ELSE h

\* Some reader of the log has not stopped yet.
Reading == Accepting(validator) \/ Accepting(observer)

InsertAt(seq, pos, x) == SubSeq(seq, 1, pos - 1) \o <<x>> \o SubSeq(seq, pos, Len(seq))

RemoveAt(seq, pos) == SubSeq(seq, 1, pos - 1) \o SubSeq(seq, pos + 1, Len(seq))

\* A row or list element the transaction found at index `origin`, and one
\* it inserted.
Original(origin) == [origin |-> origin, inserted |-> FALSE]
Inserted == [origin |-> 0, inserted |-> TRUE]

\* The state of everything else before any of it is used: the mutexes free,
\* no thread inside a method, no transaction log read yet.
InitOther ==
    /\ mutex = [m \in Locks |-> 0]
    /\ pc = [t \in Threads |-> Idle]
    /\ validator = NewValidator
    /\ observer = NewValidator
    /\ m_changes = <<>>
    /\ m_observered_linkviews = <<>>
    /\ m_active_linklist = 0
    /\ group = [tables |-> <<>>, selected |-> 0, legal |-> TRUE]
    /\ table = [rows |-> <<>>, erased |-> {}]
    /\ linkview = [elements |-> <<>>, removed |-> {}, size |-> 0, selected |-> FALSE,
                   log |-> <<>>]

\* A new transaction is read by a new validator and a new observer
\* (run_async_queries constructs its observer at line 638); the group has
\* num_tables tables and table 0 has num_rows rows.
BeginTransaction(num_tables, num_rows) ==
    /\ validator' = NewValidator
    /\ observer' = NewValidator
    /\ m_changes' = <<>>
    /\ m_active_linklist' = 0
    /\ group' = [tables |-> [i \in 1..num_tables |-> "old"], selected |-> 0, legal |-> TRUE]
    /\ table' = [rows |-> [i \in 1..num_rows |-> Original(i - 1)], erased |-> {}]
    /\ ret' = Call("begin", 0, <<num_tables, num_rows>>, 0)
    /\ UNCHANGED <<m_observered_linkviews, linkview>>

\* add_search_index, remove_search_index, swap_rows, clear_table,
\* optimize_table: `return true` in both classes.
AcceptedInstruction(kind) ==
    /\ Reading
    /\ ret' = Call(kind, 0, 0, 0)
    /\ UNCHANGED log_vars

\* insert_group_level_table(table_ndx, ...)
InsertGroupLevelTable(table_ndx) ==
    /\ Reading
    /\ Len(group.tables) < MaxTables
    /\ table_ndx \in 0..Len(group.tables)
    /\ validator' = Fed(validator, Validator_insert_group_level_table(validator, table_ndx))
    /\ observer' = Fed(observer, Observer_insert_group_level_table(observer, table_ndx))
    /\ group' = [group EXCEPT !.tables = InsertAt(@, table_ndx + 1, "new")]
    /\ ret' = Call("insert_group_level_table", 0, table_ndx, 0)
    /\ UNCHANGED <<m_changes, m_observered_linkviews, m_active_linklist, table, linkview>>

\* insert_column, insert_link_column, add_primary_key, set_link_type
NewTableInstruction(kind) ==
    /\ Reading
    /\ validator' = Fed(validator, schema_error_unless_new_table(validator))
    /\ observer' = Fed(observer, schema_error_unless_new_table(observer))
    /\ group' = [group EXCEPT !.legal = /\ @
                                       /\ group.selected < Len(group.tables)
                                       /\ group.tables[group.selected + 1] = "new"]
    /\ ret' = Call(kind, 0, 0, 0)
    /\ UNCHANGED <<m_changes, m_observered_linkviews, m_active_linklist, table, linkview>>

\* erase_group_level_table, rename_group_level_table, erase_column,
\* erase_link_column, rename_column, remove_primary_key, move_column,
\* move_group_level_table
UnsupportedInstruction(kind) ==
    /\ Reading
    /\ validator' = Fed(validator, schema_error(validator))
    /\ observer' = Fed(observer, schema_error(observer))
    /\ group' = [group EXCEPT !.legal = FALSE]
    /\ ret' = Call(kind, 0, 0, 0)
    /\ UNCHANGED <<m_changes, m_observered_linkviews, m_active_linklist, table, linkview>>

\* select_descriptor(levels, ...)
SelectDescriptor(levels) ==
    /\ Reading
    /\ validator' = Fed(validator, Validator_select_descriptor(validator, levels))
    /\ observer' = Fed(observer, Validator_select_descriptor(observer, levels))
    /\ group' = [group EXCEPT !.legal = @ /\ levels = 0]
    /\ ret' = Call("select_descriptor", 0, levels, 0)
    /\ UNCHANGED <<m_changes, m_observered_linkviews, m_active_linklist, table, linkview>>

\* select_table(group_level_ndx, ...)
SelectTable(group_level_ndx) ==
    /\ Reading
    /\ group_level_ndx \in 0..(Len(group.tables) - 1)
    /\ validator' = Fed(validator, Validator_select_table(validator, group_level_ndx))
    /\ observer' = Fed(observer, Validator_select_table(observer, group_level_ndx))
    /\ group' = [group EXCEPT !.selected = group_level_ndx]
    /\ ret' = Call("select_table", 0, group_level_ndx, 0)
    /\ UNCHANGED <<m_changes, m_observered_linkviews, m_active_linklist, table, linkview>>

\* set_int(col, row, ...) and the other row value setters: the validator
\* returns true, the observer calls mark_dirty(row, col).
SetValue(kind, row) ==
    /\ Reading
    /\ group.selected < Len(group.tables)
    /\ m_changes' = IF Accepting(observer)
                    THEN mark_dirty(m_changes, observer.m_current_table, row)
                    ELSE m_changes
    /\ ret' = Call(kind, 0, row, 0)
    /\ UNCHANGED <<validator, observer, m_observered_linkviews, m_active_linklist,
                   group, table, linkview>>

\* The ChangeInfo of the table the observer has selected.
SelectedChanges == get_change(m_changes, observer.m_current_table)[observer.m_current_table + 1]

\* insert_empty_rows(row_ndx, num_rows, prior_num_rows, unordered): both
\* classes return true; the rows appear at the tail of the table.
InsertEmptyRows(num_rows) ==
    /\ Reading
    /\ group.selected = 0 /\ Len(group.tables) > 0
    /\ Len(table.rows) + num_rows <= MaxRows
    /\ table' = [table EXCEPT !.rows = @ \o [i \in 1..num_rows |-> Inserted]]
    /\ ret' = Call("insert_empty_rows", 0, <<Len(table.rows), num_rows>>, 0)
    /\ UNCHANGED <<validator, observer, m_changes, m_observered_linkviews,
                   m_active_linklist, group, linkview>>

\* erase_rows(row_ndx, 1, prior_num_rows, unordered): the validator returns
\* true; the observer asserts unordered, then records the move and the
\* deletion. In the table the last row takes the erased row's place when
\* unordered, the rows after it move down when not.
EraseRows(row_ndx, unordered) ==
    /\ Reading
    /\ group.selected = 0 /\ Len(group.tables) > 0
    /\ row_ndx \in 0..(Len(table.rows) - 1)
    /\ SelectedChanges.deletions < MaxDeletions
    /\ observer' = IF Accepting(observer) /\ ~unordered
                   THEN [observer EXCEPT !.error = "REALM_ASSERT(unordered)"]
                   ELSE observer
    /\ m_changes' = IF Accepting(observer) /\ unordered
                    THEN Observer_erase_rows(m_changes, observer.m_current_table,
                                             row_ndx, Len(table.rows))
                    ELSE m_changes
    /\ table' = [rows |-> IF unordered
                          THEN SubSeq([table.rows EXCEPT ![row_ndx + 1] =
                                                            table.rows[Len(table.rows)]],
                                      1, Len(table.rows) - 1)
                          ELSE RemoveAt(table.rows, row_ndx + 1),
                 erased |-> IF table.rows[row_ndx + 1].inserted
                            THEN table.erased
                            ELSE table.erased \cup {table.rows[row_ndx + 1].origin}]
    /\ ret' = Call("erase_rows", 0, <<row_ndx, Len(table.rows), unordered>>, 0)
    /\ UNCHANGED <<validator, m_observered_linkviews, m_active_linklist, group, linkview>>

-----------------------------------------------------------------------------
(* IndexSet *)

IndexSet_add(set, i) == set \cup {i}

IndexSet_shift_for_insert_at(set, i) == {IF x >= i THEN x + 1 ELSE x : x \in set}

IndexSet_insert_at(set, i) == IndexSet_shift_for_insert_at(set, i) \cup {i}

IndexSet_erase_at(set, i) == {IF x > i THEN x - 1 ELSE x : x \in set \ {i}}

IndexSet_unshift(set, i) == i - Cardinality({x \in set : x < i})

IndexSet_add_shifted(set, j) == set \cup {j}

-----------------------------------------------------------------------------
(* TransactLogObserver: link lists *)

MaxListSize == 3
MaxListEvents == 3

\* A LinkListInfo for the list at (table_ndx, row_ndx, col_ndx).
NewLinkListInfo(table_ndx, row_ndx, col_ndx) ==
    [table_ndx |-> table_ndx, row_ndx |-> row_ndx, col_ndx |-> col_ndx,
     inserts |-> {}, deletes |-> {}, changes |-> {}, moves |-> <<>>,
     did_clear |-> FALSE]

\* select_link_list(col, row, ...): the index of the first observed entry
\* for (current_table(), row, col), 0 (nullptr) when there is none.
Observer_select_link_list(linkviews, current_table, col, row) ==
    LET matching == {i \in 1..Len(linkviews) :
                        /\ linkviews[i].table_ndx = current_table
                        /\ linkviews[i].row_ndx = row
                        /\ linkviews[i].col_ndx = col}
    IN  IF matching = {} THEN 0 ELSE CHOOSE i \in matching : \A j \in matching : i <= j

Observer_link_list_set(l, index) ==
    [l EXCEPT !.changes = IndexSet_add(@, index)]

Observer_link_list_insert(l, index) ==
    [l EXCEPT !.changes = IndexSet_shift_for_insert_at(@, index),
              !.inserts = IndexSet_insert_at(@, index),
              !.moves = [k \in 1..Len(l.moves) |->
                            IF l.moves[k][2] >= index
                            THEN <<l.moves[k][1], l.moves[k][2] + 1>>
                            ELSE l.moves[k]]]

Observer_link_list_erase(l, index) ==
    LET inserts == IndexSet_erase_at(l.inserts, index)
        kept == SelectSeq(l.moves, LAMBDA move : move[2] # index)
    IN  [l EXCEPT !.changes = IndexSet_erase_at(@, index),
                  !.inserts = inserts,
                  !.deletes = IndexSet_add_shifted(@, IndexSet_unshift(inserts, index)),
                  !.moves = [k \in 1..Len(kept) |->
                                IF kept[k][2] > index
                                THEN <<kept[k][1], kept[k][2] - 1>>
                                ELSE kept[k]]]

Observer_link_list_swap(l, index1, index2) ==
    Observer_link_list_set(Observer_link_list_set(l, index1), index2)

Observer_link_list_clear(l) ==
    [l EXCEPT !.did_clear = TRUE,
              !.changes = {},
              !.inserts = {},
              !.deletes = {},
              !.moves = <<>>]

Observer_link_list_move(l, from, to) ==
    LET origin == IndexSet_unshift(l.deletes, IndexSet_unshift(l.inserts, from))
        moves == Append(l.moves, <<origin, to>>)
    IN  IF from < to
        THEN [l EXCEPT
                !.moves = moves,
                !.changes = IndexSet_shift_for_insert_at(IndexSet_erase_at(@, origin), origin),
                !.inserts = IndexSet_shift_for_insert_at(IndexSet_erase_at(@, origin), origin),
                !.deletes = IndexSet_add(@, origin)]
        ELSE [l EXCEPT
                !.moves = moves,
                !.changes = IndexSet_erase_at(IndexSet_shift_for_insert_at(@, origin), origin),
                !.inserts = IndexSet_erase_at(IndexSet_shift_for_insert_at(@, origin), origin),
                !.deletes = IndexSet_add(@, origin)]

\* m_observered_linkviews after a handler left the active list as `after`;
\* nothing changes when m_active_linklist is nullptr.
WithActive(after) ==
    IF m_active_linklist = 0 \/ ~Accepting(observer)
    THEN m_observered_linkviews
    ELSE [m_observered_linkviews EXCEPT ![m_active_linklist] = after]

\* The LinkListInfo the handlers work on.
Active ==
    IF m_active_linklist = 0
    THEN NewLinkListInfo(0, 0, 0)
    ELSE m_observered_linkviews[m_active_linklist]

\* A link-list instruction can follow: the list is selected and the
\* transaction has room for it.
LinkListSelected ==
    /\ Reading
    /\ linkview.selected
    /\ Len(linkview.log) < MaxListEvents

\* A new transaction touching the link list in column 0 of row 0 of table 0,
\* which has `size` elements; `observed` are the lists the observer was told
\* to observe: none, that list, or that list after one in another column.
BeginLinkListTransaction(observed, size) ==
    /\ validator' = NewValidator
    /\ observer' = NewValidator
    /\ m_changes' = <<>>
    /\ m_observered_linkviews' = observed
    /\ m_active_linklist' = 0
    /\ group' = [tables |-> <<"old">>, selected |-> 0, legal |-> TRUE]
    /\ table' = [rows |-> <<Original(0)>>, erased |-> {}]
    /\ linkview' = [elements |-> [i \in 1..size |-> Original(i - 1)], removed |-> {},
                    size |-> size, selected |-> FALSE, log |-> <<>>]
    /\ ret' = Call("begin", 0, size, 0)

\* select_link_list(0, 0, ...)
SelectLinkList ==
    /\ Reading
    /\ Len(group.tables) > 0
    /\ m_active_linklist' =
          IF Accepting(observer)
          THEN Observer_select_link_list(m_observered_linkviews, observer.m_current_table, 0, 0)
          ELSE m_active_linklist
    /\ linkview' = [linkview EXCEPT !.selected = TRUE]
    /\ ret' = Call("select_link_list", 0, <<0, 0>>, 0)
    /\ UNCHANGED <<validator, observer, m_changes, m_observered_linkviews, group, table>>

\* link_list_set(index, ...)
LinkListSet(index) ==
    /\ LinkListSelected
    /\ index \in 0..(Len(linkview.elements) - 1)
    /\ m_observered_linkviews' = WithActive(Observer_link_list_set(Active, index))
    /\ linkview' = [linkview EXCEPT !.log = Append(@, <<"link_list_set", index>>)]
    /\ ret' = Call("link_list_set", 0, index, 0)
    /\ UNCHANGED <<validator, observer, m_changes, m_active_linklist, group, table>>

\* link_list_insert(index, ...)
LinkListInsert(index) ==
    /\ LinkListSelected
    /\ index \in 0..Len(linkview.elements)
    /\ m_observered_linkviews' = WithActive(Observer_link_list_insert(Active, index))
    /\ linkview' = [linkview EXCEPT !.elements = InsertAt(@, index + 1, Inserted),
                                    !.log = Append(@, <<"link_list_insert", index>>)]
    /\ ret' = Call("link_list_insert", 0, index, 0)
    /\ UNCHANGED <<validator, observer, m_changes, m_active_linklist, group, table>>

\* link_list_erase(index), and link_list_nullify(index) which calls it
LinkListErase(kind, index) ==
    /\ LinkListSelected
    /\ index \in 0..(Len(linkview.elements) - 1)
    /\ m_observered_linkviews' = WithActive(Observer_link_list_erase(Active, index))
    /\ linkview' = [linkview EXCEPT
                        !.elements = RemoveAt(@, index + 1),
                        !.removed = @ \cup {e.origin : e \in {x \in {linkview.elements[index + 1]} :
                                                               ~x.inserted}},
                        !.log = Append(@, <<kind, index>>)]
    /\ ret' = Call(kind, 0, index, 0)
    /\ UNCHANGED <<validator, observer, m_changes, m_active_linklist, group, table>>

\* link_list_swap(index1, index2)
LinkListSwap(index1, index2) ==
    /\ LinkListSelected
    /\ {index1, index2} \subseteq 0..(Len(linkview.elements) - 1)
    /\ m_observered_linkviews' = WithActive(Observer_link_list_swap(Active, index1, index2))
    /\ linkview' = [linkview EXCEPT
                        !.elements = [@ EXCEPT ![index1 + 1] = linkview.elements[index2 + 1],
                                               ![index2 + 1] = linkview.elements[index1 + 1]],
                        !.log = Append(@, <<"link_list_swap", index1, index2>>)]
    /\ ret' = Call("link_list_swap", 0, <<index1, index2>>, 0)
    /\ UNCHANGED <<validator, observer, m_changes, m_active_linklist, group, table>>

\* link_list_clear(old_size)
LinkListClear ==
    /\ LinkListSelected
    /\ m_observered_linkviews' = WithActive(Observer_link_list_clear(Active))
    /\ linkview' = [linkview EXCEPT
                        !.elements = <<>>,
                        !.removed = @ \cup {e.origin : e \in {x \in Range(linkview.elements) :
                                                               ~x.inserted}},
                        !.log = Append(@, <<"link_list_clear">>)]
    /\ ret' = Call("link_list_clear", 0, Len(linkview.elements), 0)
    /\ UNCHANGED <<validator, observer, m_changes, m_active_linklist, group, table>>

\* link_list_move(from, to)
LinkListMove(from, to) ==
    /\ LinkListSelected
    /\ {from, to} \subseteq 0..(Len(linkview.elements) - 1)
    /\ from # to
    /\ m_observered_linkviews' = WithActive(Observer_link_list_move(Active, from, to))
    /\ linkview' = [linkview EXCEPT
                        !.elements = InsertAt(RemoveAt(@, from + 1), to + 1,
                                              linkview.elements[from + 1]),
                        !.log = Append(@, <<"link_list_move", from, to>>)]
    /\ ret' = Call("link_list_move", 0, <<from, to>>, 0)
    /\ UNCHANGED <<validator, observer, m_changes, m_active_linklist, group, table>>

-----------------------------------------------------------------------------
(* Specifications of the registry and of the cached-handle table *)

NoCall == Call("none", 0, 0, 0)

\* The query state of a newly constructed coordinator; the file and the
\* consumer handle are at the first version.
InitQueries ==
    /\ latest = 1
    /\ queries = [q \in Queries |-> NoQuery]
    /\ m_queries = <<>>
    /\ m_new_queries = <<>>
    /\ m_query_sg = NullSharedGroup
    /\ m_advancer_sg = NullSharedGroup
    /\ m_async_error = "none"
    /\ run = IdleRun
    /\ realm_sg = 1

\* The state of a process that has not touched the registry.
Init ==
    /\ s_coordinators_per_path = [p \in Paths |-> 0]
    /\ created_for = [c \in Coordinators |-> 0]
    /\ coordinator_refs = [t \in Threads |-> {}]
    /\ destructing = {}
    /\ m_config = [c \in Coordinators |-> DefaultConfig]
    /\ m_notifier = [c \in Coordinators |-> FALSE]
    /\ m_cached_realms = [c \in Coordinators |-> <<>>]
    /\ realms = [h \in Realms |-> NoRealm]
    /\ realms_to_close = <<>>
    /\ InitQueries
    /\ ret = NoCall
    /\ InitOther

\* The state after every thread has called get_coordinator on path 1:
\* coordinator 1 is constructed and shared.
InitOpened ==
    /\ s_coordinators_per_path = [p \in Paths |-> IF p = 1 THEN 1 ELSE 0]
    /\ created_for = [c \in Coordinators |-> IF c = 1 THEN 1 ELSE 0]
    /\ coordinator_refs = [t \in Threads |-> {1}]
    /\ destructing = {}
    /\ m_config = [c \in Coordinators |-> DefaultConfig]
    /\ m_notifier = [c \in Coordinators |-> FALSE]
    /\ m_cached_realms = [c \in Coordinators |-> <<>>]
    /\ realms = [h \in Realms |-> NoRealm]
    /\ realms_to_close = <<>>
    /\ InitQueries
    /\ ret = NoCall
    /\ InitOther

\* The handle operations on one coordinator.
NextHandles ==
    \/ \E t \in Threads, config \in OpenedConfigs :
          GetRealm(1, t, config) /\ UNCHANGED <<query_vars, other_vars>>
    \/ \E h \in Realms : DropRealm(h) /\ UNCHANGED <<query_vars, other_vars>>
    \/ \E h \in Realms : RealmDestructor(h) /\ UNCHANGED <<query_vars, other_vars>>
    \/ \E h \in Realms : CloseRealm(h) /\ UNCHANGED <<query_vars, other_vars>>

SpecHandles == InitOpened /\ [][NextHandles]_vars

\* The registry operations and the handles that keep coordinators alive,
\* without clear_cache.
NextCoordinators ==
    \/ \E t \in Threads, p \in Paths : GetCoordinator(t, p) /\ UNCHANGED <<query_vars, other_vars>>
    \/ \E t \in Threads, p \in Paths :
          GetExistingCoordinator(t, p) /\ UNCHANGED <<query_vars, other_vars>>
    \/ \E t \in Threads, c \in Coordinators :
          DropCoordinator(t, c) /\ UNCHANGED <<query_vars, other_vars>>
    \/ \E c \in Coordinators : CoordinatorDestructor(c) /\ UNCHANGED <<query_vars, other_vars>>
    \/ \E t \in Threads, c \in Coordinators :
          GetRealm(c, t, DefaultConfig) /\ UNCHANGED <<query_vars, other_vars>>
    \/ \E h \in Realms : DropRealm(h) /\ UNCHANGED <<query_vars, other_vars>>
    \/ \E h \in Realms : RealmDestructor(h) /\ UNCHANGED <<query_vars, other_vars>>

SpecCoordinators == Init /\ [][NextCoordinators]_vars

\* The same with clear_cache.
NextRegistry ==
    \/ NextCoordinators
    \/ \E t \in Threads : ClearCacheGather(t) /\ UNCHANGED <<query_vars, other_vars>>
    \/ ClearCacheClose /\ UNCHANGED <<query_vars, other_vars>>

SpecRegistry == Init /\ [][NextRegistry]_vars

\* The async-query operations of one coordinator and one consumer handle.
NextQueries ==
    \/ \E v \in 1..latest, open_ok \in BOOLEAN :
          RegisterQuery(v, open_ok) /\ UNCHANGED <<registry_vars, handle_vars, other_vars>>
    \/ \E q \in Queries : KillQuery(q) /\ UNCHANGED <<registry_vars, handle_vars, other_vars>>
    \/ Commit /\ UNCHANGED <<registry_vars, handle_vars, other_vars>>
    \/ \E open_ok \in BOOLEAN :
          OnChangeBegin(open_ok) /\ UNCHANGED <<registry_vars, handle_vars, other_vars>>
    \/ OnChangeEnd /\ UNCHANGED <<registry_vars, handle_vars, other_vars>>
    \/ AdvanceToReady /\ UNCHANGED <<registry_vars, handle_vars, other_vars>>
    \/ ProcessAvailableAsync /\ UNCHANGED <<registry_vars, handle_vars, other_vars>>

SpecQueries == Init /\ [][NextQueries]_vars

\* The threads of the process calling the coordinator's methods, step by
\* step, in every interleaving.
NextLocks ==
    \/ \E t \in Threads, method \in Methods :
          Enter(t, method) /\ UNCHANGED <<registry_vars, handle_vars, query_vars, ret, log_vars>>
    \/ \E t \in Threads : Acquire(t) /\ UNCHANGED <<registry_vars, handle_vars, query_vars, ret, log_vars>>
    \/ \E t \in Threads : Release(t) /\ UNCHANGED <<registry_vars, handle_vars, query_vars, ret, log_vars>>
    \/ \E t \in Threads : Execute(t) /\ UNCHANGED <<registry_vars, handle_vars, query_vars, ret, log_vars>>

SpecLocks == Init /\ [][NextLocks]_vars

\* A transaction's schema instructions, selections and value setters, read
\* by a validator and an observer.
NextValidator ==
    \/ \E num_tables \in 0..(MaxTables - 1) :
          BeginTransaction(num_tables, 1) /\ UNCHANGED <<registry_vars, handle_vars, query_vars, lock_vars>>
    \/ \E kind \in AcceptedInstructions :
          AcceptedInstruction(kind) /\ UNCHANGED <<registry_vars, handle_vars, query_vars, lock_vars>>
    \/ \E table_ndx \in 0..MaxTables :
          InsertGroupLevelTable(table_ndx) /\ UNCHANGED <<registry_vars, handle_vars, query_vars, lock_vars>>
    \/ \E kind \in NewTableInstructions :
          NewTableInstruction(kind) /\ UNCHANGED <<registry_vars, handle_vars, query_vars, lock_vars>>
    \/ \E kind \in UnsupportedInstructions :
          UnsupportedInstruction(kind) /\ UNCHANGED <<registry_vars, handle_vars, query_vars, lock_vars>>
    \/ \E levels \in 0..1 :
          SelectDescriptor(levels) /\ UNCHANGED <<registry_vars, handle_vars, query_vars, lock_vars>>
    \/ \E group_level_ndx \in 0..(MaxTables - 1) :
          SelectTable(group_level_ndx) /\ UNCHANGED <<registry_vars, handle_vars, query_vars, lock_vars>>
    \/ \E kind \in RowSetters :
          SetValue(kind, 0) /\ UNCHANGED <<registry_vars, handle_vars, query_vars, lock_vars>>

SpecValidator == Init /\ [][NextValidator]_vars

\* A transaction's row insertions, row erasures and value setters on one
\* table, read by a validator and an observer.
NextRows ==
    \/ \E num_rows \in 0..MaxRows :
          BeginTransaction(1, num_rows) /\ UNCHANGED <<registry_vars, handle_vars, query_vars, lock_vars>>
    \/ \E num_rows \in 1..2 :
          InsertEmptyRows(num_rows) /\ UNCHANGED <<registry_vars, handle_vars, query_vars, lock_vars>>
    \/ \E row_ndx \in 0..(MaxRows - 1), unordered \in BOOLEAN :
          EraseRows(row_ndx, unordered) /\ UNCHANGED <<registry_vars, handle_vars, query_vars, lock_vars>>
    \/ \E kind \in {"set_int", "nullify_link"},
          row \in 0..(MaxRows - 1) :
          /\ row < Len(table.rows)
          /\ SetValue(kind, row)
          /\ UNCHANGED <<registry_vars, handle_vars, query_vars, lock_vars>>

SpecRows == Init /\ [][NextRows]_vars

\* A transaction's link-list instructions on one list, read by a validator
\* and an observer.
NextLinkList ==
    \/ \E observed \in {<<>>,
                          <<NewLinkListInfo(0, 0, 0)>>,
                          <<NewLinkListInfo(0, 0, 1), NewLinkListInfo(0, 0, 0)>>},
          size \in 0..MaxListSize :
          BeginLinkListTransaction(observed, size) /\ UNCHANGED <<registry_vars, handle_vars, query_vars, lock_vars>>
    \/ SelectLinkList /\ UNCHANGED <<registry_vars, handle_vars, query_vars, lock_vars>>
    \/ \E index \in 0..(MaxListSize + MaxListEvents) :
          LinkListSet(index) /\ UNCHANGED <<registry_vars, handle_vars, query_vars, lock_vars>>
    \/ \E index \in 0..(MaxListSize + MaxListEvents) :
          LinkListInsert(index) /\ UNCHANGED <<registry_vars, handle_vars, query_vars, lock_vars>>
    \/ \E kind \in {"link_list_erase", "link_list_nullify"},
          index \in 0..(MaxListSize + MaxListEvents) :
          LinkListErase(kind, index) /\ UNCHANGED <<registry_vars, handle_vars, query_vars, lock_vars>>
    \/ \E index1, index2 \in 0..(MaxListSize + MaxListEvents) :
          LinkListSwap(index1, index2) /\ UNCHANGED <<registry_vars, handle_vars, query_vars, lock_vars>>
    \/ LinkListClear /\ UNCHANGED <<registry_vars, handle_vars, query_vars, lock_vars>>
    \/ \E from, to \in 0..(MaxListSize + MaxListEvents) :
          LinkListMove(from, to) /\ UNCHANGED <<registry_vars, handle_vars, query_vars, lock_vars>>

SpecLinkList == Init /\ [][NextLinkList]_vars





-----------------------------------------------------------------------------
(* Claims about the coordinator registry *)

\* The smallest of a non-empty set of numbers.
Oldest(versions) == CHOOSE v \in versions : \A w \in versions : v <= w

\* The coordinators constructed for path p that are still strongly referenced.
LiveFor(p) == {c \in Coordinators : created_for[c] = p /\ ~CoordinatorExpired(c)}

\* C1: in every interleaving of get_coordinator calls and reference drops
\* (no clear_cache), a get_coordinator(p) that returns while a coordinator
\* for p is still strongly referenced returns that instance; when none is,
\* it constructs and returns a coordinator that did not exist before.
C1_GetCoordinatorSharesInstance ==
    [][ret'.op = "get_coordinator" =>
          LET p == ret'.arg
              c == ret'.result
          IN /\ \A d \in LiveFor(p) : c = d
             /\ LiveFor(p) = {} => created_for[c] = 0 /\ created_for'[c] = p
             /\ c \in coordinator_refs'[ret'.thread]]_vars

\* C1's case: the first coordinator has lost all its references, a second
\* one was constructed, and every thread got that same second instance.
C1_Witness ==
    /\ ret.op = "get_coordinator"
    /\ ret.result = 2
    /\ CoordinatorExpired(1)
    /\ \A t \in Threads : 2 \in coordinator_refs[t]

\* C2: in every state reachable with get_coordinator,
\* get_existing_coordinator, get_realm, clear_cache and reference drops, at
\* most one coordinator per path is live.
C2_AtMostOneLiveCoordinatorPerPath ==
    \A p \in Paths : Cardinality(LiveFor(p)) <= 1

-----------------------------------------------------------------------------
(* Claims about get_realm and unregister_realm on one coordinator *)

\* The config agrees with the captured one in the read-only flag, the
\* in-memory flag and the encryption key, and its schema version is the
\* captured one or the unversioned sentinel.
Agrees(captured, config) ==
    /\ \A f \in {"read_only", "in_memory", "encryption_key"} : captured[f] = config[f]
    /\ config.schema_version \in {captured.schema_version, NotVersioned}

\* C8: in every sequence of get_realm and unregister_realm calls on one
\* coordinator, a get_realm(config) made while the table records a handle
\* fails with the mismatched-configuration error, records no handle and
\* constructs none when config does not agree with the captured config, and
\* does not fail and keeps the captured config when it agrees (a config
\* whose only difference is the unversioned schema version agrees).
C8_MismatchedConfigRejected ==
    [][\A t \in Threads, config \in OpenedConfigs :
          (/\ m_cached_realms[1] # <<>>
           /\ ret'.op = "get_realm" /\ ret'.thread = t /\ ret'.arg = config.cache
           /\ GetRealm(1, t, config)) =>
              IF Agrees(m_config[1], config)
              THEN /\ ret'.error = "none"
                   /\ m_config' = m_config
              ELSE /\ ret'.error = "mismatched_config"
                   /\ ret'.result = 0
                   /\ m_cached_realms' = m_cached_realms
                   /\ realms' = realms]_vars

\* C8's case: a get_realm has just failed with the mismatched-configuration
\* error while the table records a handle that is alive.
C8_Witness ==
    /\ ret.op = "get_realm"
    /\ ret.error = "mismatched_config"
    /\ \E i \in 1..Len(m_cached_realms[1]) : ~Expired(m_cached_realms[1][i])

\* The entries of the table that get_realm on thread t may hand out again:
\* the cache flag is recorded, the creating thread is t and the weak
\* reference upgrades.
Reusable(tbl, t) ==
    {i \in 1..Len(tbl) : /\ tbl[i].cache
                         /\ tbl[i].thread = t
                         /\ realms[tbl[i].realm].state = "alive"}

\* The entries of handles that were created on thread t and are alive.
LiveOnThread(tbl, t) ==
    {i \in 1..Len(tbl) : /\ tbl[i].thread = t
                         /\ realms[tbl[i].realm].state = "alive"}

\* C9 (as amended): a get_realm(config) that returns on thread t, with
\* config.cache set, while the table has an entry with the cache flag
\* recorded, created on t and whose weak reference upgrades, returns the
\* handle of the first such entry and records and constructs nothing; every
\* other get_realm that returns constructs a new handle on t and appends
\* exactly one entry for it, leaving the entries before it as they were.
C9_FirstCachedHandleOfThread ==
    [][\A t \in Threads, config \in OpenedConfigs :
          (/\ ret'.op = "get_realm" /\ ret'.error = "none"
           /\ ret'.thread = t /\ ret'.arg = config.cache
           /\ GetRealm(1, t, config)) =>
              LET tbl == m_cached_realms[1]
                  after == m_cached_realms'[1]
                  h == ret'.result
              IN IF config.cache /\ Reusable(tbl, t) # {}
                 THEN /\ h = tbl[Oldest(Reusable(tbl, t))].realm
                      /\ after = tbl
                      /\ realms' = realms
                 ELSE /\ realms[h].state = "none"
                      /\ realms'[h].state = "alive"
                      /\ realms'[h].thread = t
                      /\ Len(after) = Len(tbl) + 1
                      /\ SubSeq(after, 1, Len(tbl)) = tbl
                      /\ after[Len(after)].realm = h
                      /\ after[Len(after)].thread = t]_vars

\* C9's case: the table records a handle of each thread, and the last
\* get_realm(cache = true) returned the older handle to the thread that
\* created it.
C9_Witness ==
    /\ ret.op = "get_realm"
    /\ ret.error = "none"
    /\ ret.arg
    /\ Len(m_cached_realms[1]) = 2
    /\ ret.result = 1
    /\ \E i, j \in 1..2 :
          /\ m_cached_realms[1][i].realm = 1
          /\ m_cached_realms[1][i].thread = ret.thread
          /\ m_cached_realms[1][j].realm = 2
          /\ m_cached_realms[1][j].thread # ret.thread
          /\ ~Expired(m_cached_realms[1][j])

\* C9 as stated: the same, with every alive handle that was created on the
\* calling thread taken to be handed out again, whatever its cache flag.
C9_AnyLiveHandleOfThread ==
    [][\A t \in Threads, config \in OpenedConfigs :
          (/\ ret'.op = "get_realm" /\ ret'.error = "none"
           /\ ret'.thread = t /\ ret'.arg = config.cache
           /\ GetRealm(1, t, config)) =>
              LET tbl == m_cached_realms[1]
                  after == m_cached_realms'[1]
                  h == ret'.result
              IN IF config.cache /\ LiveOnThread(tbl, t) # {}
                 THEN /\ \E i \in LiveOnThread(tbl, t) : h = tbl[i].realm
                      /\ after = tbl
                      /\ realms' = realms
                 ELSE /\ realms[h].state = "none"
                      /\ realms'[h].state = "alive"
                      /\ realms'[h].thread = t
                      /\ Len(after) = Len(tbl) + 1
                      /\ SubSeq(after, 1, Len(tbl)) = tbl
                      /\ after[Len(after)].realm = h
                      /\ after[Len(after)].thread = t]_vars

\* C10: after unregister_realm(h) has returned, whatever the table held and
\* in whatever order, the table has no entry for h and no entry whose weak
\* reference has expired, and every other entry it had is in it exactly once.
C10_UnregisterRemovesExactly ==
    [][ret'.op = "unregister_realm" =>
          LET h == ret'.arg
              c == realms[h].coordinator
              tbl == m_cached_realms[c]
              after == m_cached_realms'[c]
          IN /\ \A i \in 1..Len(after) :
                    /\ after[i].realm # h
                    /\ realms'[after[i].realm].state = "alive"
             /\ \A i \in 1..Len(tbl) :
                    (tbl[i].realm # h /\ realms[tbl[i].realm].state = "alive") =>
                        Cardinality({j \in 1..Len(after) : after[j] = tbl[i]}) = 1]_vars

-----------------------------------------------------------------------------
(* Claims about the async-query registry and runner *)

\* C3: whenever no async error is set and m_new_queries is not empty, the
\* advancer snapshot is open, holds a read transaction, and its version is
\* not newer than the version() of any query in m_new_queries.
C3_AdvancerPinsOldestPending ==
    (m_async_error = "none" /\ m_new_queries # <<>>) =>
        /\ m_advancer_sg.open
        /\ m_advancer_sg.reading
        /\ \A i \in 1..Len(m_new_queries) :
               m_advancer_sg.version <= queries[m_new_queries[i]].version

\* C3's case: a second query was registered at an older version than the
\* first, and the advancer was moved back to it.
C3_Witness ==
    /\ m_async_error = "none"
    /\ Len(m_new_queries) >= 2
    /\ queries[m_new_queries[2]].version < queries[m_new_queries[1]].version
    /\ m_advancer_sg.reading
    /\ m_advancer_sg.version = queries[m_new_queries[2]].version

\* C4: whenever no run_async_queries is in progress and both m_queries and
\* m_new_queries are empty, neither helper snapshot that exists holds a read
\* transaction.
C4_HelpersReleasedWhenIdle ==
    (run.pc = "idle" /\ m_queries = <<>> /\ m_new_queries = <<>>) =>
        /\ ~m_query_sg.reading
        /\ ~m_advancer_sg.reading

\* C5: when on_change has returned, every query that was in m_new_queries
\* when it started and is still alive has left m_new_queries and is in
\* m_queries, and either it is attached to the query snapshot and has a
\* handover staged for the version on_change advanced to, which is the
\* version of the query snapshot, or m_async_error is set; and while
\* m_async_error is set every deliver call of advance_to_ready and
\* process_available_async passes it to every query of m_queries.
C5_OnChangePromotesRegistered ==
    /\ ret.op = "on_change" =>
          \A q \in ret.arg :
              IsAlive(q) =>
                 /\ q \notin Range(m_new_queries)
                 /\ q \in Range(m_queries)
                 /\ \/ /\ queries[q].attached = "query"
                       /\ queries[q].handover
                       /\ queries[q].version = ret.result
                       /\ m_query_sg.reading
                       /\ m_query_sg.version = ret.result
                    \/ m_async_error # "none"
    /\ (/\ ret.op \in {"advance_to_ready", "process_available_async"}
        /\ ret.arg > 0
        /\ m_async_error # "none") =>
          \A q \in Range(m_queries) : queries[q].passed = m_async_error

\* C5's case: on_change has returned without an error for two registered
\* queries after a commit, and both are staged at the newest version.
C5_Witness ==
    /\ ret.op = "on_change"
    /\ m_async_error = "none"
    /\ Cardinality(ret.arg) >= 2
    /\ latest >= 2
    /\ ret.result = latest
    /\ \A q \in ret.arg : IsAlive(q) /\ queries[q].attached = "query"

\* The version() values of the queries in m_queries that are not the sentinel.
PinnedVersions ==
    {queries[m_queries[i]].version : i \in 1..Len(m_queries)} \ {0}

\* C6: advance_to_ready never moves the handle's snapshot beyond the
\* smallest non-sentinel version() among the queries in m_queries; when that
\* version is older than the handle's snapshot it neither moves the snapshot
\* nor delivers; process_available_async never moves the snapshot.
C6_AdvanceToReadyStopsAtOldest ==
    [][/\ (ret'.op = "advance_to_ready" /\ PinnedVersions # {}) =>
             /\ realm_sg' # realm_sg => realm_sg' <= Oldest(PinnedVersions)
             /\ Oldest(PinnedVersions) < realm_sg =>
                    realm_sg' = realm_sg /\ queries' = queries
       /\ ret'.op = "process_available_async" => realm_sg' = realm_sg]_vars

\* A step that does no open, begin_read or advance_read on a helper
\* snapshot (it may end its read transaction).
NoHelperWork(sg, after) ==
    /\ after.open = sg.open
    /\ after.reading => sg.reading /\ after.version = sg.version

\* C7: once m_async_error is set it stays as it is; every register_query
\* from then on leaves the advancer snapshot untouched; every on_change from
\* then on opens and advances no helper snapshot, starts no query run, and
\* leaves m_new_queries empty and in m_queries exactly the alive queries of
\* both lists.
C7_AsyncErrorIsLatched ==
    [][m_async_error # "none" =>
          /\ m_async_error' = m_async_error
          /\ NoHelperWork(m_query_sg, m_query_sg')
          /\ NoHelperWork(m_advancer_sg, m_advancer_sg')
          /\ ret'.op = "register_query" => m_advancer_sg' = m_advancer_sg
          /\ ret'.op # "run_async_queries"
          /\ ret'.op = "on_change" =>
                /\ run' = IdleRun
                /\ m_new_queries' = <<>>
                /\ Range(m_queries') =
                      {q \in Range(m_queries) \cup Range(m_new_queries) : IsAlive(q)}
                /\ Len(m_queries') = Cardinality(Range(m_queries'))]_vars

\* C7's case: the error was delivered to one query, and after that another
\* query was registered and promoted by a later on_change, the advancer
\* still holding the read transaction it had when the error was captured.
C7_Witness ==
    /\ m_async_error # "none"
    /\ ret.op = "on_change"
    /\ m_advancer_sg.reading
    /\ \E q \in Range(m_queries) : queries[q].passed = m_async_error
    /\ \E q \in Range(m_queries) : queries[q].passed = "uncalled"

-----------------------------------------------------------------------------
(* Claims about the mutexes *)

\* The mutexes thread t owns.
Held(t) == {m \in Locks : mutex[m] = t}

\* The place of a mutex in the order registry, handle, query.
Rank(m) == CASE m = "registry" -> 1 [] m = "handle" -> 2 [] m = "query" -> 3

\* Thread t is about to execute this step of this method.
AtStep(t, method, step) == pc[t].method = method /\ NextStepOf(t) = step

\* C11: a thread that acquires a mutex owns none that comes at or after it in
\* the order registry, handle, query (so the registry lock is never taken
\* under a handle or query lock, nor a handle lock under a query lock), and
\* the thread that calls Realm::close in clear_cache does not own the
\* registry lock.
C11_LockOrder ==
    [][\A t \in Threads :
          /\ \A m \in Locks :
                (mutex[m] # t /\ mutex'[m] = t) =>
                    \A n \in Held(t) : Rank(n) < Rank(m)
          /\ (NextStepOf(t) = Step("call", "Realm::close") /\ pc'[t] # pc[t]) =>
                "registry" \notin Held(t)]_vars

\* C11's case: thread 1 is closing the handles it gathered in clear_cache
\* while thread 2, in clear_cache too, owns the registry lock and took the
\* handle lock under it.
C11_Witness ==
    /\ AtStep(1, "clear_cache", Step("call", "Realm::close"))
    /\ Held(2) = {"registry", "handle"}

\* The members the handle lock covers.
HandleMembers == {"m_cached_realms", "m_config", "m_notifier"}

\* Thread t is about to read or write a member the handle lock covers.
TouchesHandleMember(t) ==
    /\ NextStepOf(t).kind \in {"read", "write"}
    /\ NextStepOf(t).what \in HandleMembers

\* Two threads are about to touch the same covered member, one of them
\* writing it, one of them inside clear_cache and the other inside get_realm,
\* unregister_realm or on_change.
RacesWithClearCache(a, b) ==
    /\ a # b
    /\ pc[a].method \in {"clear_cache", "clear_cache (last reference)"}
    /\ pc[b].method \in {"get_realm", "unregister_realm", "on_change"}
    /\ TouchesHandleMember(a)
    /\ TouchesHandleMember(b)
    /\ NextStepOf(a).what = NextStepOf(b).what
    /\ NextStepOf(a).what \in {"m_cached_realms", "m_notifier"}
    /\ "write" \in {NextStepOf(a).kind, NextStepOf(b).kind}

\* C12: a thread about to read or write m_cached_realms, m_config or
\* m_notifier owns the handle lock, and clear_cache on one thread never
\* touches m_cached_realms or m_notifier at the moment get_realm,
\* unregister_realm or on_change touches it on another.
C12_HandleMembersUnderHandleLock ==
    /\ \A t \in Threads : TouchesHandleMember(t) => "handle" \in Held(t)
    /\ \A a, b \in Threads : ~RacesWithClearCache(a, b)

\* The members the query lock covers that hold the query lists and the
\* helper snapshots.
QueryMembers == {"m_queries", "m_new_queries", "m_query_sg", "m_advancer_sg"}

\* C13: a thread about to call AsyncQuery::run or AsyncQuery::call_callbacks
\* does not own the query lock; a thread about to read or write m_queries or
\* m_new_queries, to begin, advance or end a helper snapshot's read
\* transaction, or to call prepare_handover or deliver, owns it.
C13_QueryLockScope ==
    \A t \in Threads :
        /\ NextStepOf(t) \in {Step("call", "AsyncQuery::run"),
                              Step("call", "AsyncQuery::call_callbacks")}
              => "query" \notin Held(t)
        /\ NextStepOf(t) \in {Step("call", "AsyncQuery::prepare_handover"),
                              Step("call", "AsyncQuery::deliver")}
              => "query" \in Held(t)
        /\ (NextStepOf(t).kind \in {"read", "write"} /\ NextStepOf(t).what \in QueryMembers)
              => "query" \in Held(t)

\* C13's case: thread 1 is running the queries in on_change with the query
\* lock released, and thread 2 took it meanwhile and is about to deliver in
\* advance_to_ready.
C13_Witness ==
    /\ AtStep(1, "on_change", Step("call", "AsyncQuery::run"))
    /\ AtStep(2, "advance_to_ready", Step("call", "AsyncQuery::deliver"))
    /\ Held(2) = {"query"}

-----------------------------------------------------------------------------
(* Claims about the transaction log validator and observer *)

\* C14: the validator is still accepting exactly when the transaction so far
\* holds no erase, rename or move of a table or column, no
\* remove_primary_key, no select_descriptor below the top level, and every
\* insert_column, insert_link_column, add_primary_key and set_link_type came
\* while the selected table index was that of a table the transaction
\* created; search-index changes, table creation, selections and data
\* mutations never make it stop.
C14_ValidatorAcceptsExactlySupported == Accepting(validator) <=> group.legal

\* C14's case: a column instruction was accepted on a table whose recorded
\* index had been shifted by a later insert_group_level_table in front of it,
\* in a group that also has a table from before the transaction.
C14_Witness ==
    /\ ret.op \in NewTableInstructions
    /\ Accepting(validator)
    /\ validator.m_new_tables = <<2, 1>>
    /\ validator.m_current_table = 2
    /\ group.tables = <<"old", "new", "new">>

\* C15: a row value setter on row r of the selected table adds moves[r] to
\* `changed` when r is a key of moves and r itself when it is not, adds
\* nothing else, and leaves moves and deletions as they were.
C15_SetterRecordsRemappedRow ==
    [][(ret'.op \in RowSetters /\ Accepting(observer)) =>
          LET cur == observer.m_current_table
              before == SelectedChanges
              after == m_changes'[cur + 1]
              r == ret'.arg
              o == IF r \in DOMAIN before.moves THEN before.moves[r] ELSE r
          IN  /\ after.changed = before.changed \cup {o}
              /\ after.moves = before.moves
              /\ after.deletions = before.deletions]_vars

\* C15's case, S1: on a table of four rows, erase_rows(1, 1, 4, unordered)
\* then set_int(0, 1, 42).
C15_Witness ==
    /\ ret.op = "set_int" /\ ret.arg = 1
    /\ Len(table.rows) = 3
    /\ Len(m_changes) > 0
    /\ m_changes[1] = [deletions |-> 1, moves |-> (1 :> 3), changed |-> {3}]

\* C16: after insert_empty_rows and unordered erase_rows instructions, every
\* key r of moves below the row count names a row that was in the table
\* before the transaction, at index moves[r]; every other row below the
\* row count is at the index it had before the transaction or was inserted
\* by it.
C16_MovesNameOriginalRows ==
    Accepting(observer) =>
        \A r \in 0..(Len(table.rows) - 1) :
            IF r \in DOMAIN SelectedChanges.moves
            THEN table.rows[r + 1] = Original(SelectedChanges.moves[r])
            ELSE table.rows[r + 1].inserted \/ table.rows[r + 1] = Original(r)

\* C17: `changed` holds no index of a row the transaction erased.
C17_ChangedExcludesErasedRows ==
    Accepting(observer) => SelectedChanges.changed \cap table.erased = {}

InsertedPositions == {i \in 0..(Len(linkview.elements) - 1) : linkview.elements[i + 1].inserted}

\* S2: on a list of three elements, link_list_insert(1), link_list_insert(2),
\* link_list_erase(1).
S2 ==
    /\ linkview.size = 3
    /\ linkview.log = <<<<"link_list_insert", 1>>, <<"link_list_insert", 2>>,
                        <<"link_list_erase", 1>>>>

C20_ObserverAcceptsWhatValidatorAccepts == Accepting(validator) => Accepting(observer)

-----------------------------------------------------------------------------
(* C21 *)

\* The pending queries a run of advance_helper_shared_group_to_latest moved to
\* the end of m_queries, in the order it processed them.
Promoted(main, covered) ==
    SubSeq(main, Len(main) - Cardinality(covered) + 1, Len(main))

\* C21: when advance_helper_shared_group_to_latest runs with pending queries,
\* it processes them in ascending order of version, never asks the advancer
\* snapshot for a version older than the one it holds, and leaves the query
\* snapshot at exactly the version the advancer reached, also when a commit
\* lands between the two advances; every promoted query is attached to the
\* query snapshot at that version.
C21_PendingImportedInOrderToOneVersion ==
    [][(ret'.op = "run_async_queries" /\ ret'.arg # {}) =>
          LET promoted == Promoted(m_queries', ret'.arg) IN
          /\ Range(promoted) = ret'.arg
          /\ \A i, j \in 1..Len(promoted) :
                 i < j => queries'[promoted[i]].version <= queries'[promoted[j]].version
          /\ "backwards" \notin m_advancer_sg'.faults
          /\ m_query_sg'.reading
          /\ m_query_sg'.version = ret'.result
          /\ \A q \in ret'.arg : queries'[q].attached = "query"]_vars

\* Two pending queries registered newest first were promoted by a run during
\* which a commit landed after the advancer was advanced.
C21_Witness ==
    /\ ret.op = "run_async_queries"
    /\ \E q, r \in ret.arg : q < r /\ queries[q].version > queries[r].version
    /\ ret.result < latest
    /\ m_query_sg.version = ret.result
    /\ run.pc = "running"

-----------------------------------------------------------------------------
(* C22 *)

\* C22: a get_realm call that fails, with the mismatched-configuration error
\* or with the file-access error of a notifier that could not be constructed,
\* leaves the coordinator's captured config, its notifier and its table of
\* cached handles exactly as they were before the call.
C22_FailedGetRealmChangesNothing ==
    [][(ret'.op = "get_realm" /\ ret'.error # "none") =>
          /\ m_config' = m_config
          /\ m_notifier' = m_notifier
          /\ m_cached_realms' = m_cached_realms]_vars

-----------------------------------------------------------------------------
(* C23 *)

\* C23: the cache flag recorded for a handle is the cache setting of the
\* get_realm call that created it, whatever the cache setting of the config
\* the coordinator captured first (so that a handle created with cache off is
\* never handed out again, and one created with cache on is handed out to
\* its thread while it is alive).
C23_RecordedFlagIsTheCallersCacheSetting ==
    [][(/\ ret'.op = "get_realm"
        /\ ret'.error = "none"
        /\ Len(m_cached_realms'[1]) = Len(m_cached_realms[1]) + 1) =>
          LET created == m_cached_realms'[1][Len(m_cached_realms'[1])] IN
          /\ created.realm = ret'.result
          /\ created.cache = ret'.arg]_vars

-----------------------------------------------------------------------------
(* C24 *)

\* The calls that break the pairing of read transactions on a snapshot.
Unpaired == {"begin_read", "end_read", "advance_read"}

\* C24: in every interleaving of register_query, query deaths and on_change
\* runs, including runs in which a helper open fails, begin_read is never
\* invoked on the query or advancer snapshot while it holds a read
\* transaction, and end_read or advance_read is never invoked on one that
\* holds none or does not exist.
C24_ReadTransactionsArePaired ==
    /\ m_query_sg.faults \cap Unpaired = {}
    /\ m_advancer_sg.faults \cap Unpaired = {}

=============================================================================
